---- MODULE Spec2Model ----
(***************************************************************************)
(* Document context retrieval engine of encompliance-backend               *)
(* (app/services/document_service.py and the callers that hand its output  *)
(* to a language model).                                                   *)
(*                                                                         *)
(* Text model.  A paragraph is [words, pad]: its text is the words joined  *)
(* by single blanks followed, when pad > 0, by a blank and pad characters   *)
(* of running text that contains no blank and no query term.  A chunk's or *)
(* a body's text is a sequence of paragraphs joined by "\n\n".  Lengths    *)
(* are the Python len() of the text so modelled.                           *)
(***************************************************************************)
EXTENDS Integers, Sequences, FiniteSets, TLC

VARIABLES
    USE_EMBEDDINGS,     \* module global, document_service.py:30
    embedding_model,    \* module global _embedding_model: "None" or "Loaded"
    index_files,        \* INDEX_DIR: doc id -> index_data or NoFile
    embedding_files,    \* EMBEDDING_DIR: doc id -> sequence of vectors or NoFile
    embedding_failed,   \* history: an embedding computation has raised
    database,           \* the documents table and the stored files
    pc,                 \* "idle", "pending" (request in flight) or "done"
    request,            \* the request in flight
    last                \* what the request just served returned

vars == <<USE_EMBEDDINGS, embedding_model, index_files, embedding_files,
          embedding_failed, database, pc, request, last>>

\* a file that does not exist; an existing one is [exists |-> TRUE, data |-> ...]
NoFile == [exists |-> FALSE]
File(data) == [exists |-> TRUE, data |-> data]
\* a file left behind by a write that raised: it exists and cannot be loaded
Partial(data) == [exists |-> TRUE, data |-> data, partial |-> TRUE]
IsPartial(file) == "partial" \in DOMAIN file
None == "None"

-----------------------------------------------------------------------------
(* Generic helpers *)

\* the element of a one-element set: Only({F(x) : x \in {e}}) is F(e) with e
\* evaluated once
Only(S) == CHOOSE x \in S : TRUE

Min(a, b) == IF a <= b THEN a ELSE b

Range(s) == {s[i] : i \in 1..Len(s)}

Take(s, n) == SubSeq(s, 1, Min(n, Len(s)))

RECURSIVE SumSeq(_)
SumSeq(s) == IF s = <<>> THEN 0 ELSE Head(s) + SumSeq(Tail(s))

-----------------------------------------------------------------------------
(* Text: words, paragraphs, chunk contents *)

\* str.lower() on the words of the model's vocabulary
Lower(w) ==
    CASE w = "Background" -> "background"
      [] w = "Checks"     -> "checks"
      [] OTHER            -> w

\* Proper containments between lower-cased words of the vocabulary:
\* <<t, w>> when t occurs (once) inside the longer word w, and as a prefix.
PrefixOf == {<<"check", "checks">>}

\* str.count(term) restricted to one lower-cased word
Occurrences(term, w) ==
    IF term = w \/ <<term, w>> \in PrefixOf THEN 1 ELSE 0

\* w ends with term / w starts with term
EndsWith(w, term) == term = w
StartsWith(w, term) == term = w \/ <<term, w>> \in PrefixOf

WordsLen(ws) ==
    IF ws = <<>> THEN 0
    ELSE SumSeq([i \in 1..Len(ws) |-> Len(ws[i])]) + (Len(ws) - 1)

\* len(para)
ParaLen(p) ==
    WordsLen(p.words)
      + (IF p.pad > 0 THEN p.pad + (IF p.words = <<>> THEN 0 ELSE 1) ELSE 0)

\* len("\n\n".join(paragraphs))
TextLen(ps) ==
    IF ps = <<>> THEN 0
    ELSE SumSeq([i \in 1..Len(ps) |-> ParaLen(ps[i])]) + 2 * (Len(ps) - 1)

\* para.lower().count(term)
ParaCount(term, p) ==
    SumSeq([i \in 1..Len(p.words) |-> Occurrences(term, Lower(p.words[i]))])

\* "t1 t2" in para.lower(): two neighbouring words, the first ending with
\* t1 and the second starting with t2 (terms hold no blank, pads no term)
ParaHasPair(t1, t2, p) ==
    \E i \in 1..(Len(p.words) - 1) :
        /\ EndsWith(Lower(p.words[i]), t1)
        /\ StartsWith(Lower(p.words[i + 1]), t2)

-----------------------------------------------------------------------------
(* score_chunks_by_keywords, document_service.py:323-354 *)

\* query.lower().split(): the query is given as its sequence of words
QueryTerms(query) == [i \in 1..Len(query) |-> Lower(query[i])]

\* Score based on term frequency, lines 334-336
TermFrequency(content, query_terms) ==
    SumSeq([i \in 1..Len(query_terms) |->
        IF Len(query_terms[i]) > 2
        THEN SumSeq([j \in 1..Len(content) |-> ParaCount(query_terms[i], content[j])])
        ELSE 0])

\* Bonus for terms appearing close together, lines 339-343
AdjacencyBonus(content, query_terms) ==
    SumSeq([i \in 1..(Len(query_terms) - 1) |->
        IF /\ Len(query_terms[i]) > 2
           /\ Len(query_terms[i + 1]) > 2
           /\ \E j \in 1..Len(content) :
                ParaHasPair(query_terms[i], query_terms[i + 1], content[j])
        THEN 5 ELSE 0])

\* Bonus for terms appearing in the same paragraph, lines 346-350
ParagraphBonus(content, query_terms) ==
    SumSeq([j \in 1..Len(content) |->
        LET term_count ==
              SumSeq([i \in 1..Len(query_terms) |->
                  IF Len(query_terms[i]) > 2 /\ ParaCount(query_terms[i], content[j]) > 0
                  THEN 1 ELSE 0])
        IN IF term_count > 1 THEN term_count * 2 ELSE 0])

KeywordScore(content, query) ==
    LET query_terms == QueryTerms(query)
    IN TermFrequency(content, query_terms)
         + AdjacencyBonus(content, query_terms)
         + ParagraphBonus(content, query_terms)

\* one score per chunk, in chunk order
score_chunks_by_keywords(chunks, query) ==
    [i \in 1..Len(chunks) |-> KeywordScore(chunks[i].content, query)]

-----------------------------------------------------------------------------
(* list.sort(key=lambda x: x[1], reverse=True): stable, descending *)

\* position at which e goes into the sorted list s: after every element
\* whose score is >= e's, so equal scores keep their incoming order
RECURSIVE InsertDesc(_, _)
InsertDesc(s, e) ==
    IF s = <<>> THEN <<e>>
    ELSE IF Head(s).score >= e.score THEN <<Head(s)>> \o InsertDesc(Tail(s), e)
    ELSE <<e>> \o s

RECURSIVE SortDesc(_)
SortDesc(s) ==
    IF s = <<>> THEN <<>>
    ELSE InsertDesc(SortDesc(SubSeq(s, 1, Len(s) - 1)), s[Len(s)])

-----------------------------------------------------------------------------
(* Chunker, create_document_index lines 114-143 and get_relevant_chunks     *)
(* lines 705-722 (the same loop, with chunk_size a parameter there)         *)

EmptyPara(p) == p.words = <<>> /\ p.pad = 0

\* str.strip() of paragraphs joined by "\n\n": blank paragraphs at either
\* end leave nothing behind
RECURSIVE StripLeft(_)
StripLeft(ps) ==
    IF ps = <<>> THEN <<>>
    ELSE IF EmptyPara(Head(ps)) THEN StripLeft(Tail(ps)) ELSE ps

RECURSIVE StripRight(_)
StripRight(ps) ==
    IF ps = <<>> THEN <<>>
    ELSE IF EmptyPara(ps[Len(ps)]) THEN StripRight(SubSeq(ps, 1, Len(ps) - 1)) ELSE ps

Strip(ps) == StripRight(StripLeft(ps))

\* the length of the buffer without the separators
BufferLenUnseparated(buf) == SumSeq([i \in 1..Len(buf) |-> ParaLen(buf[i])])

\* len(current_chunk): every paragraph of the buffer is followed by "\n\n"
BufferLen(buf) == SumSeq([i \in 1..Len(buf) |-> ParaLen(buf[i]) + 2])

\* The loop over paragraphs.  st.chunks are the sealed buffers, st.current
\* the running one (<<>> is the empty string: a buffer that has taken a
\* paragraph always ends in "\n\n").
RECURSIVE GroupParagraphs(_, _, _)
GroupParagraphs(paragraphs, chunk_size, st) ==
    IF paragraphs = <<>> THEN st
    ELSE LET para == Head(paragraphs)
             nxt == IF BufferLen(st.current) + ParaLen(para) <= chunk_size
                    THEN [chunks |-> st.chunks, current |-> Append(st.current, para)]
                    ELSE [chunks |-> IF st.current # <<>>
                                     THEN Append(st.chunks, st.current)
                                     ELSE st.chunks,
                          current |-> <<para>>]
         IN GroupParagraphs(Tail(paragraphs), chunk_size, nxt)

\* the sealed buffers without lines 136-143
BuffersSealedOnly(paragraphs, chunk_size) ==
    GroupParagraphs(paragraphs, chunk_size, [chunks |-> <<>>, current |-> <<>>]).chunks

\* the sealed buffers plus the last one when it is not empty
Buffers(paragraphs, chunk_size) ==
    LET st == GroupParagraphs(paragraphs, chunk_size, [chunks |-> <<>>, current |-> <<>>])
    IN IF st.current # <<>> THEN Append(st.chunks, st.current) ELSE st.chunks

\* hashlib.md5(text).hexdigest(): the digest stands for the text it was
\* taken of, paragraphs and the number of trailing newline characters
Md5(paras, trailing) == [paras |-> paras, trailing |-> trailing]

\* chunk record of the index, lines 128-133 and 138-143
ChunkRecord(buf) ==
    [content |-> Strip(buf), hash |-> Md5(buf, 2), length |-> BufferLen(buf)]

index_chunk_size == 5000

\* the chunks cut at the default size of get_relevant_chunks (line 692)
IndexChunksDefaultSize(content) ==
    LET bufs == Buffers(content, 10000)
    IN [i \in 1..Len(bufs) |-> ChunkRecord(bufs[i])]

IndexChunks(content) ==
    LET bufs == Buffers(content, index_chunk_size)
    IN [i \in 1..Len(bufs) |-> ChunkRecord(bufs[i])]

-----------------------------------------------------------------------------
(* Embedding capability, lines 29-87 *)

\* What the environment does to one request: whether loading the model,
\* model.encode, np.load and the similarity computation raise, and the
\* cosine similarities (in hundredths) the library returns per vector.
LoadOutcomes == {"ok", "raise"}

\* get_embedding_model, lines 37-50: returns [model, use]
get_embedding_model(model, use, env) ==
    IF model = None
    THEN IF env.model_load = "ok"
         THEN [model |-> "Loaded", use |-> use, raised |-> FALSE]
         ELSE [model |-> None, use |-> FALSE, raised |-> TRUE]
    ELSE [model |-> model, use |-> use, raised |-> FALSE]

\* an embedding computation that does not look at the flag and raises it when
\* the vectors come out
compute_embeddings_retrying(model, use, env) ==
    LET g == get_embedding_model(model, TRUE, env)
    IN IF g.model # None /\ env.encode = "ok"
       THEN [value |-> "vectors", model |-> g.model, use |-> TRUE,
             attempted |-> TRUE, raised |-> FALSE]
       ELSE [value |-> None, model |-> g.model, use |-> g.use,
             attempted |-> TRUE, raised |-> TRUE]

\* compute_embeddings, lines 52-64.  value is None or "vectors"; attempted
\* tells that the function went past the USE_EMBEDDINGS guard; raised that
\* an exception was raised (and swallowed) inside it.
compute_embeddings(model, use, env) ==
    IF ~use
    THEN [value |-> None, model |-> model, use |-> use,
          attempted |-> FALSE, raised |-> FALSE]
    ELSE LET g == get_embedding_model(model, use, env)
         IN IF g.model = None
            THEN \* None.encode raises AttributeError, caught at line 61
                 [value |-> None, model |-> g.model, use |-> g.use,
                  attempted |-> TRUE, raised |-> TRUE]
            ELSE IF env.encode = "ok"
            THEN [value |-> "vectors", model |-> g.model, use |-> g.use,
                  attempted |-> TRUE, raised |-> FALSE]
            ELSE [value |-> None, model |-> g.model, use |-> g.use,
                  attempted |-> TRUE, raised |-> TRUE]

-----------------------------------------------------------------------------
(* Strings handed on: a text is a sequence of segments.  kind tells what   *)
(* the segment is, s its literal string (markers, titles, notes), body its *)
(* paragraphs (document text), n its length in characters, doc the         *)
(* document it belongs to (0: none); whole is FALSE for a segment of which *)
(* a slice kept only the first n characters.                               *)

Lit(kind, s, doc) ==
    [kind |-> kind, s |-> s, body |-> <<>>, n |-> Len(s), doc |-> doc, whole |-> TRUE]

Body(kind, ps, doc) ==
    [kind |-> kind, s |-> "", body |-> ps, n |-> TextLen(ps), doc |-> doc, whole |-> TRUE]

SegLen(segs) == SumSeq([i \in 1..Len(segs) |-> segs[i].n])

\* sep.join(items) for items that are themselves sequences of segments
RECURSIVE Join(_, _)
Join(items, sep) ==
    IF items = <<>> THEN <<>>
    ELSE IF Len(items) = 1 THEN items[1]
    ELSE items[1] \o <<Lit("sep", sep, 0)>> \o Join(Tail(items), sep)

FilterNote ==
    "\n\n[Note: Content has been filtered to show only the most relevant sections based on the query. The full document contains more information.]"

\* f"--- RELEVANT SECTION {i+1} ---\n{chunk}"
Section(i, chunk, doc) ==
    << Lit("marker", "--- RELEVANT SECTION " \o ToString(i) \o " ---\n", doc),
       Body("content", chunk, doc) >>

\* lines 300-306 and 543-549: the sections joined by "\n\n", then the note
FormatSections(top_chunks, doc) ==
    Join([i \in 1..Len(top_chunks) |-> Section(i, top_chunks[i], doc)], "\n\n")
      \o <<Lit("note", FilterNote, doc)>>

-----------------------------------------------------------------------------
(* get_document_from_index, lines 189-321 *)

max_chunks == 5

Contents(scored) == [i \in 1..Len(scored) |-> scored[i].content]

\* index of the first vector equal to vectors[i]: the encoder is a function,
\* so equal texts have equal vectors and equal similarities
FirstIndex(vectors, i) == CHOOSE j \in 1..i : vectors[j] = vectors[i] /\ \A k \in 1..(j - 1) : vectors[k] # vectors[i]

\* the similarities handed back in the reverse of the vector order
compute_similarity_reversed(vectors, env) ==
    [i \in 1..Len(vectors) |-> env.sims[FirstIndex(vectors, Len(vectors) + 1 - i)]]

\* compute_similarity, lines 66-74: one cosine (in hundredths) per vector
compute_similarity(vectors, env) ==
    [i \in 1..Len(vectors) |-> env.sims[FirstIndex(vectors, i)]]

\* lines 254-260: the loop walks the list sorted by similarity and reads
\* keyword_scores at the loop index
HybridScores(scored_chunks, keyword_scores) ==
    [i \in 1..Len(scored_chunks) |->
        [content |-> scored_chunks[i].content,
         pos     |-> scored_chunks[i].pos,
         score   |-> 7 * scored_chunks[i].score + 30 * keyword_scores[i]]]

\* the semantic path without the handler of line 272 around the similarity
\* computation: the chunks come back unranked
SemanticPathUnguarded(index_data, vectors, query, model, use, env) ==
    [ok |-> TRUE,
     scored_chunks |-> [i \in 1..Len(index_data.chunks) |->
                          [content |-> index_data.chunks[i].content, pos |-> i, score |-> 0]],
     similarities |-> [i \in 1..Len(index_data.chunks) |-> 0],
     model |-> model, use |-> use, attempted |-> FALSE, raised |-> FALSE]

\* lines 226-276.  ok = FALSE: an exception reached the handler of line 272.
\* Scores of the hybrid list are in thousandths: 0.7 * sem + 0.3 * kw / 10.
SemanticPath(index_data, vectors, query, model, use, env) ==
    LET unchanged == [ok |-> FALSE, scored_chunks |-> <<>>, similarities |-> <<>>,
                      model |-> model, use |-> use,
                      attempted |-> FALSE, raised |-> FALSE]
        ce == compute_embeddings(model, use, env)
        after == [unchanged EXCEPT !.model = ce.model, !.use = ce.use,
                                   !.attempted = ce.attempted, !.raised = ce.raised]
        chunks == index_data.chunks
        similarities == compute_similarity(vectors, env)
        scored == SortDesc([i \in 1..Len(similarities) |->
                     [content |-> chunks[i].content, pos |-> i, score |-> similarities[i]]])
        keyword_scores == score_chunks_by_keywords(chunks, query)
    IN IF env.np_load = "raise" THEN unchanged
       ELSE IF ce.value = None THEN after             \* None[0]: TypeError
       ELSE IF env.similarity = "raise" THEN after
       ELSE IF Len(similarities) > Len(chunks) THEN after   \* IndexError, line 239
       ELSE [after EXCEPT !.ok = TRUE,
                          !.similarities = similarities,
                          !.scored_chunks = SortDesc(HybridScores(scored, keyword_scores))]

\* lines 279-287
KeywordPath(index_data, query) ==
    LET keyword_scores == score_chunks_by_keywords(index_data.chunks, query)
    IN SortDesc([i \in 1..Len(keyword_scores) |->
          [content |-> index_data.chunks[i].content, pos |-> i,
           score |-> keyword_scores[i]]])

\* the selection without lines 292-295
TopChunksByScoreOnly(chunks, scored_chunks) ==
    Contents(Take(scored_chunks, max_chunks))

\* lines 289-297
TopChunks(chunks, scored_chunks) ==
    LET first_chunk == IF chunks # <<>> THEN chunks[1].content ELSE <<>>
        top == Contents(Take(scored_chunks, max_chunks))
    IN IF first_chunk # <<>> /\ first_chunk \notin Range(top)
       THEN <<first_chunk>> \o Contents(Take(scored_chunks, max_chunks - 1))
       ELSE top

\* The call with a query (lines 222-316) on an index that exists.  query is
\* a non-empty sequence of words.  np.load raises on an embedding file that
\* cannot be loaded, which the handler of line 272 turns into keyword ranking.
IndexQuery(doc_id, index_data, embedding_file, query, model, use, env) ==
    LET use_embeddings_for_query == use /\ embedding_file.exists
        vectors == embedding_file.data
        sem == IF use_embeddings_for_query /\ ~IsPartial(embedding_file)
               THEN SemanticPath(index_data, vectors, query, model, use, env)
               ELSE [ok |-> FALSE, scored_chunks |-> <<>>, similarities |-> <<>>,
                     model |-> model, use |-> use,
                     attempted |-> FALSE, raised |-> FALSE]
        scored_chunks == IF sem.ok THEN sem.scored_chunks
                         ELSE KeywordPath(index_data, query)
        top_chunks == TopChunks(index_data.chunks, scored_chunks)
        filtered_content == FormatSections(top_chunks, doc_id)
    IN [found |-> TRUE,
        title |-> index_data.title,
        chapters |-> index_data.chapters,
        headings |-> index_data.headings,
        content |-> filtered_content,
        total_chars |-> SegLen(filtered_content),
        path |-> IF sem.ok THEN "hybrid" ELSE "keyword",
        scored_chunks |-> scored_chunks,
        similarities |-> sem.similarities,
        top_chunks |-> top_chunks,
        model |-> sem.model, use |-> sem.use,
        attempted |-> sem.attempted, raised |-> sem.raised]

-----------------------------------------------------------------------------
(* get_relevant_chunks, lines 692-772 *)

\* lines 705-722: the chunks are the stripped buffers
RelevantChunkList(text, chunk_size) ==
    LET bufs == Buffers(text, chunk_size)
    IN [i \in 1..Len(bufs) |-> Strip(bufs[i])]

\* lines 728-757: (chunk, score) pairs, stable sort by score descending.
\* The scoring lines 732-752 repeat score_chunks_by_keywords.
RelevantScored(chunks, query) ==
    SortDesc([i \in 1..Len(chunks) |->
        [content |-> chunks[i], pos |-> i, score |-> KeywordScore(chunks[i], query)]])

\* the selection without the slice of line 764
RelevantTopUncut(chunks, scored_chunks, maxc) ==
    IF chunks # <<>> /\ chunks[1] \notin Range(Contents(Take(scored_chunks, maxc)))
    THEN <<[content |-> chunks[1], pos |-> 1, score |-> 0]>> \o scored_chunks
    ELSE scored_chunks

\* lines 759-764
RelevantTop(chunks, scored_chunks, maxc) ==
    LET withFirst ==
          IF chunks # <<>> /\ chunks[1] \notin Range(Contents(Take(scored_chunks, maxc)))
          THEN <<[content |-> chunks[1], pos |-> 1, score |-> 0]>> \o scored_chunks
          ELSE scored_chunks
    IN Take(withFirst, maxc)

get_relevant_chunks(text, query, maxc, chunk_size) ==
    LET bufs == Buffers(text, chunk_size)
        chunks == [i \in 1..Len(bufs) |-> Strip(bufs[i])]
    IN Contents(RelevantTop(chunks, RelevantScored(chunks, query), maxc))

-----------------------------------------------------------------------------
(* create_document_index, lines 97-187 *)

\* the build that computes embeddings whatever the flag says and raises the
\* flag when they come out
create_document_index_rearming(doc_id, content, title, chapters, headings, st, env) ==
    LET chunks == IndexChunks(content)
        ce == compute_embeddings_retrying(st.model, st.use, env)
    IN [st EXCEPT
          !.index_files[doc_id] =
              File([doc_id |-> doc_id, title |-> title, chapters |-> chapters,
                    headings |-> headings, chunks |-> chunks,
                    total_chunks |-> Len(chunks), total_length |-> TextLen(content)]),
          !.embedding_files[doc_id] =
              IF ce.value # None THEN File([i \in 1..Len(chunks) |-> chunks[i].content])
              ELSE st.embedding_files[doc_id],
          !.model = ce.model,
          !.use = ce.use,
          !.attempted = TRUE,
          !.raised = st.raised \/ ce.raised]

\* lines 157-160 and 173-174: what a write leaves on disk.  open raises
\* before there is a file; a write that raises later leaves a file that
\* cannot be loaded.
Written(old, data, outcome) ==
    CASE outcome = "ok" -> File(data)
      [] outcome = "open_raises" -> old
      [] outcome = "dump_raises" -> Partial(data)

\* the build without the handlers of lines 176 and 184: an exception of a
\* write leaves the function
create_document_index_unguarded(doc_id, content, title, chapters, headings, st, env) ==
    LET chunks == IndexChunks(content)
        index_data == [doc_id |-> doc_id, title |-> title, chapters |-> chapters,
                       headings |-> headings, chunks |-> chunks,
                       total_chunks |-> Len(chunks), total_length |-> TextLen(content)]
        ce == IF st.use /\ Len(chunks) > 0 /\ env.index_write = "ok"
              THEN compute_embeddings(st.model, st.use, env)
              ELSE [value |-> None, model |-> st.model, use |-> st.use,
                    attempted |-> FALSE, raised |-> FALSE]
    IN [st EXCEPT
          !.index_files[doc_id] = Written(@, index_data, env.index_write),
          !.embedding_files[doc_id] =
              IF ce.value # None
              THEN Written(@, [i \in 1..Len(chunks) |-> chunks[i].content],
                           env.embedding_write)
              ELSE @,
          !.model = ce.model,
          !.use = ce.use,
          !.attempted = st.attempted \/ ce.attempted,
          !.raised = st.raised \/ ce.raised,
          !.escaped = env.index_write # "ok"
                        \/ (ce.value # None /\ env.embedding_write # "ok")]

\* Returns the files and the embedding globals after the call.  An exception
\* of the index write skips the embeddings and ends in the handler of line
\* 184, one of the embedding write in the handler of line 176: escaped, which
\* tells that an exception left the function, stays as it was.
create_document_index(doc_id, content, title, chapters, headings, st, env) ==
    LET chunks == IndexChunks(content)
        index_data == [doc_id |-> doc_id, title |-> title, chapters |-> chapters,
                       headings |-> headings, chunks |-> chunks,
                       total_chunks |-> Len(chunks), total_length |-> TextLen(content)]
        ce == IF st.use /\ Len(chunks) > 0 /\ env.index_write = "ok"
              THEN compute_embeddings(st.model, st.use, env)
              ELSE [value |-> None, model |-> st.model, use |-> st.use,
                    attempted |-> FALSE, raised |-> FALSE]
    IN [st EXCEPT
          !.index_files[doc_id] = Written(@, index_data, env.index_write),
          !.embedding_files[doc_id] =
              IF ce.value # None
              THEN Written(@, [i \in 1..Len(chunks) |-> chunks[i].content],
                           env.embedding_write)
              ELSE @,
          !.model = ce.model,
          !.use = ce.use,
          !.attempted = st.attempted \/ ce.attempted,
          !.raised = st.raised \/ ce.raised]

-----------------------------------------------------------------------------
(* get_document_context, lines 356-690 *)

PDF_STORAGE_PATH == "/srv/encompliance-documents/"

\* filename.lower().endswith('.pdf') on the file names of the store
EndsWithPdf(filename) ==
    filename \in {"handbook.pdf", "memo.pdf", "broken.pdf", "other.pdf"}

NoRank == [path |-> "none", scored_chunks |-> <<>>, top_chunks |-> <<>>,
           similarities |-> <<>>]

\* one entry of document_contexts; outcome and rank are kept for the
\* properties, the rest are the keys the assembly reads
Ctx(row, title, chapters, headings, content, length, outcome, rank) ==
    [id |-> row.id, filename |-> row.filename, title |-> title,
     chapters |-> chapters, headings |-> headings, content |-> content,
     length |-> length, outcome |-> outcome, rank |-> rank]

\* lines 492-501
NotFoundText(row) ==
    "[Document " \o row.filename \o " (ID: " \o ToString(row.id) \o ") not found at "
      \o PDF_STORAGE_PATH \o row.filepath \o "]"

\* lines 512-521 and 594-605
ExtractErrorText(row, msg) ==
    "[Error extracting text from " \o row.filename \o ": " \o msg \o "]"

\* lines 608
UnsupportedText(row) ==
    "[Text extraction not supported for " \o row.file_type \o " files]"

\* lines 529-551: what becomes content_text
ContentText(row, query) ==
    LET content == row.file.content
    IN IF query # <<>> /\ TextLen(content) > 50000
       THEN FormatSections(get_relevant_chunks(content, query, 5, 10000), row.id)
       ELSE <<Body("content", content, row.id)>>

\* ranking of the on-the-fly path, kept for the properties
ContentRank(row, query) ==
    LET content == row.file.content
        bufs == Buffers(content, 10000)
        chunks == [i \in 1..Len(bufs) |-> Strip(bufs[i])]
    IN IF query # <<>> /\ TextLen(content) > 50000
       THEN [path |-> "relevant",
             scored_chunks |-> RelevantScored(chunks, query),
             top_chunks |-> get_relevant_chunks(content, query, 5, 10000),
             similarities |-> <<>>]
       ELSE NoRank

\* an entry that takes the place of the entries gathered so far
AddCtxReplacing(st, c) == [st EXCEPT !.contexts = <<c>>]

\* document_contexts.append(...)
AddCtx(st, c) == [st EXCEPT !.contexts = Append(st.contexts, c)]

IndexContext(st, row, r) ==
    [st EXCEPT
       !.contexts = Append(st.contexts,
           Ctx(row, r.title, r.chapters, r.headings, r.content, r.total_chars,
               "index",
               [path |-> r.path, scored_chunks |-> r.scored_chunks,
                top_chunks |-> r.top_chunks, similarities |-> r.similarities])),
       !.model = r.model, !.use = r.use,
       !.attempted = st.attempted \/ r.attempted,
       !.raised = st.raised \/ r.raised]

\* lines 553-572: the entry of a document whose text was extracted
ExtractedContext(st, row, content_text, rank) ==
    AddCtx(st, Ctx(row, row.file.title, row.file.chapters, row.file.headings, content_text,
                   Len(row.file.title) + Len(row.file.chapters) + Len(row.file.headings)
                     + SegLen(content_text),
                   "extracted", rank))

\* lines 593-605: an exception that leaves the try block of line 503 puts
\* the error entry in the place of the document's entry
ExceptionContext(row, st) ==
    IF st.escaped
    THEN [st EXCEPT !.contexts[Len(st.contexts)] =
            Ctx(row, row.filename, "", "",
                <<Lit("placeholder", ExtractErrorText(row, "exception"), row.id)>>,
                0, "exception", NoRank)]
    ELSE st

\* a build that also runs when the index file is there and the embedding
\* file is not
IndexIfUnembedded(row, st, env) ==
    IF (~st.index_files[row.id].exists \/ ~st.embedding_files[row.id].exists)
         /\ TextLen(row.file.content) > 10000
    THEN ExceptionContext(row,
            create_document_index(row.id, row.file.content, row.file.title,
                                  row.file.chapters, row.file.headings, st, env))
    ELSE st

\* lines 574-592: a large document without an index gets one for later calls
IndexIfLarge(row, st, env) ==
    IF ~st.index_files[row.id].exists /\ TextLen(row.file.content) > 10000
    THEN ExceptionContext(row,
            create_document_index(row.id, row.file.content, row.file.title,
                                  row.file.chapters, row.file.headings, st, env))
    ELSE st

\* the body of the loop of line 403 for one document record
ProcessDocument(st, row, query, env) ==
    LET d == row.id
        f == row.file
    IN IF query # <<>> /\ st.index_files[d].exists /\ ~IsPartial(st.index_files[d])
       THEN \* lines 407-421; json.load raises on a file that cannot be loaded
            \* and get_document_from_index returns None (lines 318-321)
            Only({IndexContext(st, row, r) :
                    r \in {IndexQuery(d, st.index_files[d].data, st.embedding_files[d],
                                       query, st.model, st.use, env)}})
       ELSE IF f.kind = "missing"
       THEN AddCtx(st, Ctx(row, row.filename, "", "", <<Lit("placeholder", NotFoundText(row), d)>>,
                    0, "not_found", NoRank))
       ELSE IF Lower(row.file_type) = "pdf" \/ EndsWithPdf(row.filename)
       THEN IF f.kind = "error"
            THEN AddCtx(st, Ctx(row, row.filename, "", "",
                         <<Lit("placeholder", ExtractErrorText(row, f.error), d)>>,
                         0, "extract_error", NoRank))
            ELSE IF f.kind = "raises"
            THEN AddCtx(st, Ctx(row, row.filename, "", "",
                         <<Lit("placeholder", ExtractErrorText(row, f.error), d)>>,
                         0, "exception", NoRank))
            ELSE Only({IndexIfLarge(row, ExtractedContext(st, row, content_text, rank), env) :
                         content_text \in {ContentText(row, query)},
                         rank \in {ContentRank(row, query)}})
       ELSE AddCtx(st, Ctx(row, row.filename, "", "",
                    <<Lit("placeholder", UnsupportedText(row), d)>>,
                    Len(UnsupportedText(row)), "unsupported", NoRank))

RECURSIVE ProcessDocuments(_, _, _, _)
ProcessDocuments(st, rows, query, env) ==
    IF rows = <<>> THEN st
    ELSE ProcessDocuments(ProcessDocument(st, Head(rows), query, env), Tail(rows), query, env)

\* list.sort(key=lambda x: x['length']): stable, ascending
RECURSIVE InsertByLength(_, _)
InsertByLength(s, e) ==
    IF s = <<>> THEN <<e>>
    ELSE IF Head(s).length <= e.length THEN <<Head(s)>> \o InsertByLength(Tail(s), e)
    ELSE <<e>> \o s

RECURSIVE SortByLength(_)
SortByLength(s) ==
    IF s = <<>> THEN <<>>
    ELSE InsertByLength(SortByLength(SubSeq(s, 1, Len(s) - 1)), s[Len(s)])

\* lines 664-670; the star is one character, written "*" here
ContentEntry(c) ==
    LET header == Lit("marker", "--- DOCUMENT CONTENT: " \o c.title \o " ---", c.id)
    IN (IF c.length < 1000
        THEN << Lit("marker", "*** IMPORTANT DOCUMENT ***\n", c.id), header,
                Lit("marker", "\n*** PLEASE READ CAREFULLY ***", c.id) >>
        ELSE << header >>)
       \o <<Lit("sep", "\n", 0)>> \o c.content \o <<Lit("sep", "\n", 0)>>

\* lines 636-685
FormatContext(contexts) ==
    LET sorted == SortByLength(contexts)
        HasChapters(c) == c.chapters # ""
        HasHeadings(c) == c.headings # ""
        withChapters == SelectSeq(sorted, HasChapters)
        withHeadings == SelectSeq(sorted, HasHeadings)
        titles == [i \in 1..Len(sorted) |-> <<Lit("title", sorted[i].title, sorted[i].id)>>]
        chapters == [i \in 1..Len(withChapters) |->
                       << Lit("marker", "--- CHAPTERS FROM " \o withChapters[i].title \o " ---\n",
                              withChapters[i].id),
                          Lit("chapters", withChapters[i].chapters, withChapters[i].id) >>]
        headings == [i \in 1..Len(withHeadings) |->
                       << Lit("marker", "--- HEADINGS FROM " \o withHeadings[i].title \o " ---\n",
                              withHeadings[i].id),
                          Lit("headings", withHeadings[i].headings, withHeadings[i].id) >>]
        contents == [i \in 1..Len(sorted) |-> ContentEntry(sorted[i])]
    IN <<Lit("marker", "### DOCUMENT TITLES ###\n", 0)>> \o Join(titles, "\n")
         \o <<Lit("sep", "\n\n", 0)>>
         \o (IF chapters # <<>>
             THEN <<Lit("marker", "### DOCUMENT CHAPTERS ###\n", 0)>> \o Join(chapters, "\n\n")
                    \o <<Lit("sep", "\n\n", 0)>>
             ELSE <<>>)
         \o (IF headings # <<>>
             THEN <<Lit("marker", "### DOCUMENT HEADINGS ###\n", 0)>> \o Join(headings, "\n\n")
                    \o <<Lit("sep", "\n\n", 0)>>
             ELSE <<>>)
         \o <<Lit("marker", "### DOCUMENT CONTENT ###\n", 0)>> \o Join(contents, "\n")

\* the records of the requested ids that are not deleted, whoever uploaded
\* them
QueryDocumentsAnyOwner(db, doc_ids, current_user_id) ==
    LET Wanted(row) == row.id \in doc_ids /\ ~row.is_deleted
    IN SelectSeq(db, Wanted)

\* lines 375-381: the records of the requested ids that are not deleted and,
\* when current_user_id is given, belong to that user; in id order
QueryDocuments(db, doc_ids, current_user_id) ==
    LET Wanted(row) == /\ row.id \in doc_ids
                       /\ ~row.is_deleted
                       /\ (current_user_id # None => row.uploaded_by = current_user_id)
    IN SelectSeq(db, Wanted)

\* lines 383-690 once the records are read
Assembled(st, documents) ==
    [st |-> st, documents |-> documents, text |-> FormatContext(st.contexts)]

ContextOf(st, documents, query, env) ==
    IF documents = <<>>
    THEN [st |-> st, documents |-> documents,
          text |-> <<Lit("placeholder", "[No documents found for the requested IDs]", 0)>>]
    ELSE Only({Assembled(done, documents) :
                 done \in {ProcessDocuments([st EXCEPT !.contexts = <<>>], documents,
                                            query, env)}})

\* The whole call.  st carries the files and the embedding globals in and
\* out; text is the string returned.
get_document_context(db, doc_ids, current_user_id, query, st, env) ==
    IF env.db = "raise"
    THEN [st |-> st, documents |-> <<>>,
          text |-> <<Lit("placeholder", "[Error extracting document context: db]", 0)>>]
    ELSE ContextOf(st, QueryDocuments(db, doc_ids, current_user_id), query, env)

-----------------------------------------------------------------------------
(* extract_text_from_pdf, lines 774-982.  A stored file tells what the two  *)
(* parsers make of it: content is the page texts PyPDF2 yields, joined by   *)
(* blank lines, alt what pdfminer does when it is asked.                    *)

ExtractionError(msg) ==
    [is_error |-> TRUE, error |-> msg, title |-> "", chapters |-> "", headings |-> "",
     content |-> <<>>, total_chars |-> 0, alt_calls |-> 0]

\* lines 937-943: total_chars adds up the page texts, content joins them
PrimaryResult(f) ==
    [is_error |-> FALSE, error |-> "", title |-> f.title, chapters |-> f.chapters,
     headings |-> f.headings, content |-> f.content,
     total_chars |-> SumSeq([i \in 1..Len(f.content) |-> ParaLen(f.content[i])]),
     alt_calls |-> 0]

\* lines 948-970: the alternative extraction; alt_calls counts the calls of
\* pdfminer.  `if alt_text:` is the test for a non-empty string.
AlternativeResult(f, result) ==
    IF f.alt.outcome = "text" /\ TextLen(f.alt.text) > 0
    THEN [is_error |-> FALSE, error |-> "", title |-> result.title, chapters |-> "",
          headings |-> "", content |-> f.alt.text, total_chars |-> TextLen(f.alt.text),
          alt_calls |-> 1]
    ELSE [result EXCEPT !.alt_calls = 1]

extract_text_from_pdf(f) ==
    IF f.kind = "missing" THEN ExtractionError("PDF file not found")
    ELSE IF f.kind # "pdf" THEN ExtractionError(f.error)
    ELSE IF PrimaryResult(f).total_chars = 0
    THEN AlternativeResult(f, PrimaryResult(f))
    ELSE PrimaryResult(f)

-----------------------------------------------------------------------------
(* Line classification of extract_text_from_pdf, lines 884-926.  A line of *)
(* a page is [blanks, lead, n, upper]: blanks blanks, then the text, which  *)
(* is lead followed by n - Len(lead) letters without a blank, capitals when *)
(* upper; n is the length of the text.                                      *)

Leads ==
    {"Chapter 7", "SECTION 3", "Part 2", "GENERAL", "ABC", "1. Scope", "1. scope",
     "IV. Staff", "IV. Section", "The staff", "chapter notes"}

\* the letters of the lead are all capitals
CapitalLead(lead) == lead \in {"SECTION 3", "GENERAL", "ABC"}

\* str.strip() of a line
StripLine(line) == [line EXCEPT !.blanks = 0]

\* len(text)
LineLen(line) == line.blanks + line.n

\* text.isupper(): there are letters and none is a small one
IsUpper(line) ==
    /\ line.n > 0
    /\ CapitalLead(line.lead)
    /\ (line.n > Len(line.lead) => line.upper)

\* re.match(r'^(CHAPTER|Chapter|Section|SECTION|PART|Part)\s+\d+', text)
MatchesKeyword(line) ==
    line.blanks = 0 /\ line.lead \in {"Chapter 7", "SECTION 3", "Part 2"}

\* re.match(r'^\d+\.\s+[A-Z]', text)
MatchesNumbered(line) == line.blanks = 0 /\ line.lead = "1. Scope"

\* re.match(r'^[IVXLCDM]+\.\s+[A-Z]', text)
MatchesRoman(line) == line.blanks = 0 /\ line.lead \in {"IV. Staff", "IV. Section"}

\* "chapter" in line.lower() or "section" in line.lower()
NamesChapter(line) ==
    line.lead \in {"Chapter 7", "SECTION 3", "IV. Section", "chapter notes"}

\* lines 885-898
is_heading(text) ==
    LET t == StripLine(text)
    IN IF t.n = 0 THEN FALSE
       ELSE IF IsUpper(t) /\ LineLen(t) > 3 /\ LineLen(t) < 100 THEN TRUE
       ELSE IF MatchesKeyword(t) THEN TRUE
       ELSE IF MatchesNumbered(t) /\ LineLen(t) < 100 THEN TRUE
       ELSE IF MatchesRoman(t) /\ LineLen(t) < 100 THEN TRUE
       ELSE FALSE

\* lines 911-920 for one line of the page
ClassifyLine(st, raw) ==
    LET line == StripLine(raw)
    IN IF line.n = 0 THEN st
       ELSE IF is_heading(line)
       THEN IF NamesChapter(line)
            THEN [st EXCEPT !.chapters = Append(@, line)]
            ELSE [st EXCEPT !.headings = Append(@, line)]
       ELSE [st EXCEPT !.page_content = Append(@, line)]

RECURSIVE ClassifyLines(_, _)
ClassifyLines(st, lines) ==
    IF lines = <<>> THEN st
    ELSE ClassifyLines(ClassifyLine(st, Head(lines)), Tail(lines))

\* lines 878-926 for a file of one page, given as its lines
ExtractPage(lines) ==
    ClassifyLines([chapters |-> <<>>, headings |-> <<>>, page_content |-> <<>>], lines)

-----------------------------------------------------------------------------

(* get_document_from_index without a query, lines 200-220 *)

EmptyParagraph == [words |-> <<>>, pad |-> 0]

RECURSIVE Flatten(_)
Flatten(texts) == IF texts = <<>> THEN <<>> ELSE Head(texts) \o Flatten(Tail(texts))

\* "\n\n".join(contents) as paragraphs: an empty string among several
\* contents leaves an empty paragraph between its neighbours
JoinContents(contents) ==
    IF contents = <<>> THEN <<>>
    ELSE IF Len(contents) = 1 THEN contents[1]
    ELSE Flatten([i \in 1..Len(contents) |->
                    IF contents[i] = <<>> THEN <<EmptyParagraph>> ELSE contents[i]])

\* lines 210-220
IndexWhole(index_data) ==
    [found |-> TRUE,
     title |-> index_data.title,
     chapters |-> index_data.chapters,
     headings |-> index_data.headings,
     content |-> JoinContents(Contents(index_data.chunks)),
     total_chars |-> index_data.total_length]

\* the whole function; query <<>> is no query
get_document_from_index(doc_id, query, st, env) ==
    IF ~st.index_files[doc_id].exists \/ IsPartial(st.index_files[doc_id])
    THEN [found |-> FALSE]
    ELSE IF query = <<>> THEN IndexWhole(st.index_files[doc_id].data)
    ELSE IndexQuery(doc_id, st.index_files[doc_id].data, st.embedding_files[doc_id],
                    query, st.model, st.use, env)

-----------------------------------------------------------------------------
(* index_existing_documents, lines 1163-1258 *)

\* lines 1216-1241: what the loop does with the extracted data
IndexExtracted(acc, row, extracted, env) ==
    [st |-> IF ~extracted.is_error /\ TextLen(extracted.content) > 1000
            THEN create_document_index(row.id, extracted.content, extracted.title,
                                       extracted.chapters, extracted.headings, acc.st, env)
            ELSE acc.st,
     extracted |-> Append(acc.extracted, [id |-> row.id, data |-> extracted])]

\* the body of the loop of line 1179 for one record
IndexExistingDocument(acc, row, env) ==
    IF acc.st.index_files[row.id].exists THEN acc
    ELSE IF row.file.kind = "missing" THEN acc
    ELSE IF Lower(row.file_type) = "pdf" \/ EndsWithPdf(row.filename)
    THEN Only({IndexExtracted(acc, row, extracted, env) :
                 extracted \in {extract_text_from_pdf(row.file)}})
    ELSE acc

RECURSIVE IndexExistingDocuments(_, _, _)
IndexExistingDocuments(acc, rows, env) ==
    IF rows = <<>> THEN acc
    ELSE IndexExistingDocuments(IndexExistingDocument(acc, Head(rows), env), Tail(rows), env)

\* st carries the files and the embedding globals in and out; extracted is
\* what extract_text_from_pdf returned per document
index_existing_documents(db, st, env) ==
    LET NotDeleted(row) == ~row.is_deleted
    IN IndexExistingDocuments([st |-> st, extracted |-> <<>>], SelectSeq(db, NotDeleted), env)

-----------------------------------------------------------------------------
(* The callers that hand the context to a language model *)

llm_max_context_length == 100000
route_max_context_length == 50000

TruncationNotice == "\n[Context truncated due to length]"

\* text[:k]
RECURSIVE Slice(_, _)
Slice(segs, k) ==
    IF segs = <<>> \/ k <= 0 THEN <<>>
    ELSE IF Head(segs).n <= k THEN <<Head(segs)>> \o Slice(Tail(segs), k - Head(segs).n)
    ELSE <<[Head(segs) EXCEPT !.n = k, !.whole = FALSE]>>

\* llm_service.py:90-94 and routes/chat.py:130-134, 239-243
Trim(document_context, max_context_length) ==
    IF SegLen(document_context) > max_context_length
    THEN Slice(document_context, max_context_length)
           \o <<Lit("truncation", TruncationNotice, 0)>>
    ELSE document_context

\* What each entry point does with the string get_document_context returned:
\*   get_llm_response                        llm_service.py:83-97
\*   chat_route                              api/routes/chat.py:124-138, 233-247
\*   get_chat_response                       services/chat.py:61-80
\*   enhance_system_message                  core/chat_utils.py:34-51
Handed(op, document_context) ==
    CASE op = "get_llm_response" -> Trim(document_context, llm_max_context_length)
      [] op = "chat_route" -> Trim(document_context, route_max_context_length)
      [] op = "get_chat_response" -> document_context
      [] op = "enhance_system_message" -> document_context

\* get_llm_response passes the prompt as the query; the others pass none
QueryOf(req) == IF req.op = "get_llm_response" THEN req.prompt ELSE <<>>

-----------------------------------------------------------------------------
(* The document store and the requests *)

\* chunks beyond max_chunks in the large document
ExtraChunks == 1

NumParas == max_chunks + ExtraChunks

\* more ids than this are not asked for in one request
MaxIds == 2

DocIds == 1..4
UnknownId == Cardinality(DocIds) + 1
\* user ids, compared for equality only
Users == {"u1", "u2"}

Words(k) ==
    CASE k = "A" -> <<"Background", "checks", "check">>
      [] k = "B" -> <<"check", "check", "check", "check", "check">>
      [] k = "S" -> <<"staff">>

LargeBody(pattern, pad) ==
    [i \in 1..Len(pattern) |-> [words |-> Words(pattern[i]), pad |-> pad]]

PdfFile(title, chapters, headings, content) ==
    [kind |-> "pdf", title |-> title, chapters |-> chapters, headings |-> headings,
     content |-> content, error |-> ""]

BadFile(kind, error) ==
    [kind |-> kind, title |-> "", chapters |-> "", headings |-> "", content |-> <<>>,
     error |-> error]

Row(id, filename, file_type, uploaded_by, is_deleted, file) ==
    [id |-> id, filename |-> filename, filepath |-> ToString(id) \o "_" \o filename,
     file_type |-> file_type, uploaded_by |-> uploaded_by, is_deleted |-> is_deleted,
     file |-> file]

\* document 3 is the one that fails
FailingRows ==
    { Row(3, "broken.pdf", "pdf", "u1", FALSE, BadFile("missing", "")),
      Row(3, "broken.pdf", "pdf", "u1", FALSE,
          BadFile("error", "File is not a valid PDF")),
      Row(3, "broken.pdf", "pdf", "u1", FALSE, BadFile("raises", "exception")),
      Row(3, "notes.docx", "docx", "u1", FALSE, BadFile("present", "")) }

\* document 4 is another user's, or deleted
ForeignRows ==
    { Row(4, "other.pdf", "pdf", "u2", FALSE,
          PdfFile("Other", "", "", <<[words |-> <<"staff">>, pad |-> 300]>>)),
      Row(4, "other.pdf", "pdf", "u1", TRUE,
          PdfFile("Other", "", "", <<[words |-> <<"staff">>, pad |-> 300]>>)) }

Store(body, failing, foreign) ==
    << Row(1, "handbook.pdf", "pdf", "u1", FALSE,
           PdfFile("Minimum Standards", "CHAPTER 1", "GENERAL", body)),
       Row(2, "memo.pdf", "pdf", "u1", FALSE,
           PdfFile("Memo", "", "", <<[words |-> <<"staff", "Background">>, pad |-> 200]>>)),
       failing, foreign >>

Q1 == <<"Background", "check">>
Q2 == <<"staff">>
Queries == {Q1, Q2}

SimVals == {0, 30}

Env(fault, sims) ==
    [db |-> IF fault = "db" THEN "raise" ELSE "ok",
     model_load |-> IF fault = "model_load" THEN "raise" ELSE "ok",
     encode |-> IF fault = "encode" THEN "raise" ELSE "ok",
     np_load |-> IF fault = "np_load" THEN "raise" ELSE "ok",
     similarity |-> IF fault = "similarity" THEN "raise" ELSE "ok",
     index_write |-> CASE fault = "index_open" -> "open_raises"
                       [] fault = "index_dump" -> "dump_raises"
                       [] OTHER -> "ok",
     embedding_write |-> CASE fault = "embedding_open" -> "open_raises"
                           [] fault = "embedding_save" -> "dump_raises"
                           [] OTHER -> "ok",
     sims |-> sims]

IdSets == {ids \in SUBSET (DocIds \cup {UnknownId}) : Cardinality(ids) \in 1..MaxIds}

ZeroSims == [i \in 1..NumParas |-> 0]

-----------------------------------------------------------------------------
(* The process *)

NoRequest == [op |-> "none"]
NoResult == [op |-> "none"]

Globals ==
    [contexts |-> <<>>, index_files |-> index_files, embedding_files |-> embedding_files,
     model |-> embedding_model, use |-> USE_EMBEDDINGS,
     attempted |-> FALSE, raised |-> FALSE, escaped |-> FALSE]

InitProcess ==
    /\ USE_EMBEDDINGS \in BOOLEAN      \* FALSE: the import of line 33 failed
    /\ embedding_model = None
    /\ index_files = [d \in DocIds |-> NoFile]
    /\ embedding_files = [d \in DocIds |-> NoFile]
    /\ embedding_failed = FALSE
    /\ pc = "idle"
    /\ request = NoRequest
    /\ last = NoResult

\* a request reaches one of the entry points
Arrive(req) ==
    /\ pc = "idle"
    /\ pc' = "pending"
    /\ request' = req
    /\ UNCHANGED <<USE_EMBEDDINGS, embedding_model, index_files, embedding_files,
                   embedding_failed, database, last>>

\* the entry point runs: get_document_context, then what the caller does
\* with the string
Serve ==
    /\ pc = "pending"
    /\ \E r \in {get_document_context(database, request.doc_ids, request.user,
                                     QueryOf(request), Globals, request.env)} :
          /\ USE_EMBEDDINGS' = r.st.use
          /\ embedding_model' = r.st.model
          /\ index_files' = r.st.index_files
          /\ embedding_files' = r.st.embedding_files
          /\ embedding_failed' = (embedding_failed \/ r.st.raised)
          /\ last' = [op |-> request.op,
                      documents |-> r.documents,
                      contexts |-> r.st.contexts,
                      text |-> r.text,
                      handed |-> Handed(request.op, r.text),
                      use_before |-> USE_EMBEDDINGS,
                      model_before |-> embedding_model,
                      failed_before |-> embedding_failed,
                      index_before |-> index_files,
                      escaped |-> r.st.escaped,
                      attempted |-> r.st.attempted,
                      raised |-> r.st.raised]
    /\ pc' = "done"
    /\ UNCHANGED <<database, request>>

\* the response leaves
Deliver ==
    /\ pc = "done"
    /\ pc' = "idle"
    /\ request' = NoRequest
    /\ last' = NoResult
    /\ UNCHANGED <<USE_EMBEDDINGS, embedding_model, index_files, embedding_files,
                   embedding_failed, database>>

\* ---- the service with its four entry points

\* running text per paragraph of the handbook
HandbookPad == 24875

Init ==
    /\ InitProcess
    /\ \E failing \in FailingRows, foreign \in ForeignRows :
          database = Store(LargeBody([i \in 1..NumParas |-> IF i = 1 THEN "B" ELSE "A"],
                                     HandbookPad),
                           failing, foreign)

\* get_llm_response is also called without a user id
QueryRequests ==
    { [op |-> "get_llm_response", doc_ids |-> ids, user |-> u, prompt |-> q,
       env |-> Env(fault, ZeroSims)] :
        ids \in IdSets, u \in {"u1", None}, q \in Queries,
        fault \in {"none", "db", "model_load", "encode", "np_load", "similarity"} }

PlainRequests ==
    { [op |-> o, doc_ids |-> ids, user |-> u, prompt |-> <<>>,
       env |-> Env(fault, ZeroSims)] :
        o \in {"chat_route", "get_chat_response", "enhance_system_message"},
        ids \in IdSets, u \in Users,
        fault \in {"none", "model_load", "encode"} }

Next ==
    \/ \E req \in QueryRequests \cup PlainRequests : Arrive(req)
    \/ Serve
    \/ Deliver

Spec == Init /\ [][Next]_vars

-----------------------------------------------------------------------------
(* Ranking: one user asks about the large document, whose paragraphs and   *)
(* similarities range over all the combinations of the bounds              *)

Patterns == [1..NumParas -> {"A", "B"}]

\* at most two chunks are similar to the query
SimVectors ==
    { s \in [1..NumParas -> SimVals] : Cardinality({i \in 1..NumParas : s[i] # 0}) <= 2 }

InitRank ==
    /\ InitProcess
    /\ \E pattern \in Patterns :
          database = Store(LargeBody(pattern, 20000),
                           Row(3, "broken.pdf", "pdf", "u1", FALSE, BadFile("missing", "")),
                           Row(4, "other.pdf", "pdf", "u2", FALSE,
                               PdfFile("Other", "", "", <<[words |-> <<"staff">>, pad |-> 300]>>)))

RankRequests ==
    { [op |-> "get_llm_response", doc_ids |-> {1}, user |-> "u1", prompt |-> q,
       env |-> e] :
        q \in Queries,
        e \in {Env("none", sims) : sims \in SimVectors}
                \cup {Env(fault, ZeroSims) :
                        fault \in {"model_load", "encode", "np_load", "similarity"}} }

NextRank ==
    \/ \E req \in RankRequests : Arrive(req)
    \/ Serve
    \/ Deliver

SpecRank == InitRank /\ [][NextRank]_vars

-----------------------------------------------------------------------------
(* Indexing: the start-up indexer, reads of the index without a query and  *)
(* the chunker of get_relevant_chunks, on one stored file whose text       *)
(* ranges over the bodies of the bounds                                    *)

\* paragraphs per body
MaxParas == 3

\* paragraph lengths around index_chunk_size and half of it
ParaSizes == {2499, 2500, 4000, 6000}

\* a paragraph of n characters that starts with the word w
Paragraph(w, n) == [words |-> <<w>>, pad |-> n - Len(w) - 1]

IndexingParagraphs == {Paragraph(w, n) : w \in {"check", "staff"}, n \in ParaSizes}

\* what PyPDF2 yields: page texts, none of them empty (line 923)
Bodies == UNION {[1..k -> IndexingParagraphs] : k \in 1..MaxParas}

\* what pdfminer yields: nothing, or raw text that may start or end with a
\* blank line
AltBodies ==
    LET plain == UNION {[1..k -> {Paragraph("staff", n) : n \in {2500, 6000}}] : k \in 1..2}
    IN {<<>>} \cup plain \cup {<<EmptyParagraph>> \o b : b \in plain}
              \cup {b \o <<EmptyParagraph>> : b \in plain}

\* a file PyPDF2 finds no text in
ScannedPdf(title, alt) ==
    [kind |-> "pdf", title |-> title, chapters |-> "", headings |-> "", content |-> <<>>,
     error |-> "", alt |-> alt]

IndexingFiles ==
    {PdfFile("Minimum Standards", "CHAPTER 1", "GENERAL", b) : b \in Bodies}
      \cup {ScannedPdf("handbook.pdf", [outcome |-> "text", text |-> b]) : b \in AltBodies}
      \cup {ScannedPdf("handbook.pdf", [outcome |-> "raises", text |-> <<>>]),
            BadFile("missing", ""),
            BadFile("error", "File is not a valid PDF")}

InitIndexing ==
    /\ InitProcess
    /\ \E f \in IndexingFiles :
          database = <<Row(1, "handbook.pdf", "pdf", "u1", FALSE, f)>>

IndexingRequests ==
    {[op |-> "index_existing_documents", env |-> Env(fault, <<>>)] :
        fault \in {"none", "model_load", "encode"}}
      \cup {[op |-> "get_document_from_index", doc_id |-> 1, env |-> Env("none", <<>>)]}
      \cup {[op |-> "get_relevant_chunks", doc_id |-> 1, query |-> q] : q \in Queries}

\* index_existing_documents runs
IndexExisting ==
    /\ pc = "pending"
    /\ request.op = "index_existing_documents"
    /\ \E r \in {index_existing_documents(database, Globals, request.env)} :
          /\ USE_EMBEDDINGS' = r.st.use
          /\ embedding_model' = r.st.model
          /\ index_files' = r.st.index_files
          /\ embedding_files' = r.st.embedding_files
          /\ embedding_failed' = (embedding_failed \/ r.st.raised)
          /\ last' = [op |-> request.op, extracted |-> r.extracted]
    /\ pc' = "done"
    /\ UNCHANGED <<database, request>>

\* get_document_from_index(doc_id) runs
ReadIndex ==
    /\ pc = "pending"
    /\ request.op = "get_document_from_index"
    /\ last' = [op |-> request.op,
                result |-> get_document_from_index(request.doc_id, <<>>, Globals,
                                                   request.env)]
    /\ pc' = "done"
    /\ UNCHANGED <<USE_EMBEDDINGS, embedding_model, index_files, embedding_files,
                   embedding_failed, database, request>>

\* get_relevant_chunks(text, query) runs on the text extracted from the file
RelevantChunks ==
    /\ pc = "pending"
    /\ request.op = "get_relevant_chunks"
    /\ \E data \in {extract_text_from_pdf(database[request.doc_id].file)} :
          last' = [op |-> request.op,
                   text |-> data.content,
                   chunks |-> RelevantChunkList(data.content, 10000),
                   top_chunks |-> get_relevant_chunks(data.content, request.query, 5, 10000)]
    /\ pc' = "done"
    /\ UNCHANGED <<USE_EMBEDDINGS, embedding_model, index_files, embedding_files,
                   embedding_failed, database, request>>

NextIndexing ==
    \/ \E req \in IndexingRequests : Arrive(req)
    \/ IndexExisting
    \/ ReadIndex
    \/ RelevantChunks
    \/ Deliver

SpecIndexing == InitIndexing /\ [][NextIndexing]_vars

-----------------------------------------------------------------------------
(* Scoring: score_chunks_by_keywords on a chunk and on the same chunk with *)
(* one more occurrence of a query term                                     *)

\* words per paragraph of the scored texts
MaxWords == 2

ScoreWords == {"Background", "checks", "check", "staff", "of"}

\* paragraphs of query words, and one of running text without any
ScoreParagraphs ==
    {[words |-> ws, pad |-> 0] : ws \in UNION {[1..k -> ScoreWords] : k \in 1..MaxWords}}
      \cup {[words |-> <<>>, pad |-> 10]}

\* second paragraphs of the chunks of two paragraphs
SecondParagraphs ==
    {[words |-> <<>>, pad |-> 10], [words |-> <<"staff">>, pad |-> 0],
     [words |-> <<"Background", "check">>, pad |-> 0]}

\* chunk contents of one or two paragraphs
ScoreContents ==
    {<<p>> : p \in ScoreParagraphs}
      \cup {<<p, r>> : p \in ScoreParagraphs, r \in SecondParagraphs}

Q3 == <<"Background", "check", "staff">>
\* a query with a term of two characters
Q4 == <<"of", "check">>
\* a query that repeats a term
Q5 == <<"check", "check">>
\* a query with a term of two characters between two longer ones
Q6 == <<"Background", "of", "check">>

\* the words of the query that are terms of more than two characters
TermWords(query) ==
    {query[t] : t \in {u \in 1..Len(query) : Len(Lower(query[u])) > 2}}

\* the text with the word w put in as word k + 1 of paragraph j
WithOccurrence(content, j, k, w) ==
    [content EXCEPT ![j].words =
        SubSeq(@, 1, k) \o <<w>> \o SubSeq(@, k + 1, Len(@))]

\* the texts that are content with one more occurrence of a term of query
Additions(content, query) ==
    UNION {{WithOccurrence(content, j, k, w) :
              k \in 0..Len(content[j].words), w \in TermWords(query)} :
           j \in 1..Len(content)}

\* a chunk and the same chunk with one more occurrence, scored together
ScoreRequests ==
    UNION {{[op |-> "score_chunks_by_keywords", query |-> q,
             chunks |-> <<[content |-> c], [content |-> d]>>] : d \in Additions(c, q)} :
           q \in {Q1, Q2, Q3, Q4, Q5, Q6}, c \in ScoreContents}

InitScore == InitProcess /\ database = <<>>

\* score_chunks_by_keywords runs
ScoreChunks ==
    /\ pc = "pending"
    /\ request.op = "score_chunks_by_keywords"
    /\ last' = [op |-> request.op,
                scores |-> score_chunks_by_keywords(request.chunks, request.query),
                bonuses |-> [i \in 1..Len(request.chunks) |->
                               ParagraphBonus(request.chunks[i].content,
                                              QueryTerms(request.query))]]
    /\ pc' = "done"
    /\ UNCHANGED <<USE_EMBEDDINGS, embedding_model, index_files, embedding_files,
                   embedding_failed, database, request>>

NextScore ==
    \/ \E req \in ScoreRequests : Arrive(req)
    \/ ScoreChunks
    \/ Deliver

SpecScore == InitScore /\ [][NextScore]_vars

-----------------------------------------------------------------------------
(* Concurrent builds: two requests at lines 582-592 for the same document, *)
(* each running create_document_index file operation by file operation,    *)
(* and a reader of the index.  Here pc, request and last are functions of  *)
(* the process; the index file is held as the text on disk.                *)

Builders == {"b1", "b2"}
Reader == "reader"

\* len(datetime.now().isoformat()), line 154: 26 characters, 19 when the
\* microsecond is 0
StampLens == {19, 26}

\* The text of the index file: head is what json.dump has flushed before
\* the file is closed, tail what close flushes, which ends with the last
\* key indexed_at and the closing brace.  tail.len is the length of the
\* stamp written last, tail.extent the length of the longest stamp written
\* since the file was last truncated.
EmptyText ==
    [head |-> [written |-> "no", data |-> None],
     tail |-> [written |-> FALSE, len |-> 0, extent |-> 0]]

\* open(index_path, 'w'), line 158: creates the file or cuts it to nothing
OpenForWriting == [exists |-> TRUE, data |-> EmptyText]

\* a flush of the head at offset 0
WriteHead(text, index_data) ==
    [text EXCEPT !.head = [written |-> "yes", data |-> index_data]]

\* the flush of the tail at its offset: a head not yet written is a hole,
\* and a longer tail already there keeps its last characters
WriteTail(text, stamp_len) ==
    [head |-> IF text.head.written = "no"
              THEN [written |-> "hole", data |-> None] ELSE text.head,
     tail |-> [written |-> TRUE, len |-> stamp_len,
               extent |-> IF text.tail.extent > stamp_len THEN text.tail.extent
                          ELSE stamp_len]]

\* json.load(f), line 208, succeeds on the text
Loadable(text) ==
    /\ text.head.written = "yes"
    /\ text.tail.written
    /\ text.tail.extent = text.tail.len

\* what os.path.exists and json.load make of the file
Observed(file) ==
    IF ~file.exists THEN "none"
    ELSE IF Loadable(file.data) THEN "complete"
    ELSE IF file.data.head.written = "no" /\ ~file.data.tail.written THEN "empty"
    ELSE "partial"

\* lines 146-155 for the document of the concurrent builds
BuildIndexData(row) ==
    [doc_id |-> row.id, title |-> row.file.title, chapters |-> row.file.chapters,
     headings |-> row.file.headings, chunks |-> IndexChunks(row.file.content),
     total_chunks |-> Len(IndexChunks(row.file.content)),
     total_length |-> TextLen(row.file.content)]

InitBuild ==
    /\ USE_EMBEDDINGS \in BOOLEAN
    /\ embedding_model = None
    /\ index_files = [d \in DocIds |-> NoFile]
    /\ embedding_files = [d \in DocIds |-> NoFile]
    /\ embedding_failed = FALSE
    /\ database = <<Row(1, "handbook.pdf", "pdf", "u1", FALSE,
                        PdfFile("Minimum Standards", "CHAPTER 1", "GENERAL",
                                LargeBody(<<"B", "A", "A">>, 4000)))>>
    /\ pc = [p \in Builders \cup {Reader} |-> "check"]
    /\ request = [b \in Builders |-> [stamp_len |-> 0]]
    /\ last = [p \in Builders \cup {Reader} |-> [observed |-> "nothing", built |-> FALSE]]

\* line 582: the index is built when there is no file and the text is long
BuildCheck(b) ==
    /\ pc[b] = "check"
    /\ IF ~index_files[1].exists /\ TextLen(database[1].file.content) > 10000
       THEN /\ pc' = [pc EXCEPT ![b] = "open"]
            /\ \E n \in StampLens : request' = [request EXCEPT ![b].stamp_len = n]
            /\ last' = [last EXCEPT ![b].observed = "none"]
       ELSE /\ pc' = [pc EXCEPT ![b] = "done"]
            /\ last' = [last EXCEPT ![b].observed = Observed(index_files[1])]
            /\ UNCHANGED request
    /\ UNCHANGED <<USE_EMBEDDINGS, embedding_model, index_files, embedding_files,
                   embedding_failed, database>>

\* line 158
BuildOpen(b) ==
    /\ pc[b] = "open"
    /\ index_files' = [index_files EXCEPT ![1] = OpenForWriting]
    /\ pc' = [pc EXCEPT ![b] = "dump"]
    /\ UNCHANGED <<USE_EMBEDDINGS, embedding_model, embedding_files, embedding_failed,
                   database, request, last>>

\* line 159: json.dump fills the buffer and flushes it
BuildDump(b) ==
    /\ pc[b] = "dump"
    /\ index_files' = [index_files EXCEPT
                         ![1].data = WriteHead(@, BuildIndexData(database[1]))]
    /\ pc' = [pc EXCEPT ![b] = "close"]
    /\ UNCHANGED <<USE_EMBEDDINGS, embedding_model, embedding_files, embedding_failed,
                   database, request, last>>

\* the end of the with block of line 158: the rest is flushed
BuildClose(b) ==
    /\ pc[b] = "close"
    /\ index_files' = [index_files EXCEPT
                         ![1].data = WriteTail(@, request[b].stamp_len)]
    /\ pc' = [pc EXCEPT ![b] = "embed"]
    /\ UNCHANGED <<USE_EMBEDDINGS, embedding_model, embedding_files, embedding_failed,
                   database, request, last>>

\* lines 162-179, then return True
BuildEmbed(b) ==
    /\ pc[b] = "embed"
    /\ \E fault \in {"none", "model_load", "encode"} :
         \E ce \in {IF USE_EMBEDDINGS
                    THEN compute_embeddings(embedding_model, USE_EMBEDDINGS,
                                            Env(fault, <<>>))
                    ELSE [value |-> None, model |-> embedding_model,
                          use |-> USE_EMBEDDINGS, attempted |-> FALSE,
                          raised |-> FALSE]} :
            /\ embedding_files' =
                 IF ce.value # None
                 THEN [embedding_files EXCEPT
                         ![1] = File(Contents(IndexChunks(database[1].file.content)))]
                 ELSE embedding_files
            /\ USE_EMBEDDINGS' = ce.use
            /\ embedding_model' = ce.model
            /\ embedding_failed' = (embedding_failed \/ ce.raised)
    /\ pc' = [pc EXCEPT ![b] = "done"]
    /\ last' = [last EXCEPT ![b].built = TRUE]
    /\ UNCHANGED <<index_files, database, request>>

\* get_document_from_index, lines 201-204: is there a file
ReaderCheck ==
    /\ pc[Reader] = "check"
    /\ IF index_files[1].exists
       THEN pc' = [pc EXCEPT ![Reader] = "load"] /\ UNCHANGED last
       ELSE /\ pc' = [pc EXCEPT ![Reader] = "done"]
            /\ last' = [last EXCEPT ![Reader].observed = "none"]
    /\ UNCHANGED <<USE_EMBEDDINGS, embedding_model, index_files, embedding_files,
                   embedding_failed, database, request>>

\* lines 207-208: the file is read and parsed
ReaderLoad ==
    /\ pc[Reader] = "load"
    /\ pc' = [pc EXCEPT ![Reader] = "done"]
    /\ last' = [last EXCEPT ![Reader].observed = Observed(index_files[1])]
    /\ UNCHANGED <<USE_EMBEDDINGS, embedding_model, index_files, embedding_files,
                   embedding_failed, database, request>>

NextBuild ==
    \/ \E b \in Builders : BuildCheck(b)
    \/ \E b \in Builders : BuildOpen(b)
    \/ \E b \in Builders : BuildDump(b)
    \/ \E b \in Builders : BuildClose(b)
    \/ \E b \in Builders : BuildEmbed(b)
    \/ ReaderCheck
    \/ ReaderLoad

SpecBuild == InitBuild /\ [][NextBuild]_vars

-----------------------------------------------------------------------------
(* Extraction: the line classification of extract_text_from_pdf on one page *)
(* whose lines range over the lines of the bounds                           *)

\* lines per page
MaxLines == 2

\* lengths on either side of the limit of is_heading
LineLens == {99, 100}

PageLine(blanks, lead, n, upper) ==
    [blanks |-> blanks, lead |-> lead, n |-> n, upper |-> upper]

\* every lead alone and filled up to the lengths, the capital ones also with
\* capitals; an empty line, a line of blanks and an indented line
PageLines ==
    {PageLine(0, lead, Len(lead), FALSE) : lead \in Leads}
      \cup {PageLine(0, lead, n, FALSE) : lead \in Leads, n \in LineLens}
      \cup {PageLine(0, lead, n, TRUE) : lead \in {l \in Leads : CapitalLead(l)}, n \in LineLens}
      \cup {PageLine(0, "", 0, FALSE), PageLine(2, "", 0, FALSE),
            PageLine(1, "GENERAL", 7, FALSE)}

Pages == UNION {[1..k -> PageLines] : k \in 1..MaxLines}

InitExtract ==
    /\ InitProcess
    /\ \E page \in Pages :
          database = <<Row(1, "handbook.pdf", "pdf", "u1", FALSE,
                           [kind |-> "pages", lines |-> page])>>

ExtractRequests == {[op |-> "extract_text_from_pdf", doc_id |-> d] : d \in {1}}

\* extract_text_from_pdf reads the page: chapters, headings and page content
\* are the lists of lines 879-881 and 909
ExtractText ==
    /\ pc = "pending"
    /\ request.op = "extract_text_from_pdf"
    /\ \E r \in {ExtractPage(database[request.doc_id].file.lines)} :
          last' = [op |-> request.op, chapters |-> r.chapters, headings |-> r.headings,
                   page_content |-> r.page_content]
    /\ pc' = "done"
    /\ UNCHANGED <<USE_EMBEDDINGS, embedding_model, index_files, embedding_files,
                   embedding_failed, database, request>>

NextExtract ==
    \/ \E req \in ExtractRequests : Arrive(req)
    \/ ExtractText
    \/ Deliver

SpecExtract == InitExtract /\ [][NextExtract]_vars

-----------------------------------------------------------------------------
(* Persistence: requests for one document, with and without a query, during *)
(* which the writes of create_document_index may raise                      *)

\* a body that is filtered on the fly, one that is indexed but not filtered
\* on the fly, and one that is neither
PersistBodies ==
    {LargeBody([i \in 1..NumParas |-> IF i = 1 THEN "B" ELSE "A"], 20000),
     LargeBody(<<"B", "A", "A">>, 4000),
     LargeBody(<<"A">>, 4000)}

InitPersist ==
    /\ InitProcess
    /\ \E body \in PersistBodies :
          database = <<Row(1, "handbook.pdf", "pdf", "u1", FALSE,
                           PdfFile("Minimum Standards", "CHAPTER 1", "GENERAL", body))>>

PersistFaults ==
    {"none", "encode", "np_load", "index_open", "index_dump", "embedding_open",
     "embedding_save"}

PersistRequests ==
    {[op |-> "get_llm_response", doc_ids |-> {1}, user |-> "u1", prompt |-> q,
      env |-> Env(fault, ZeroSims)] : q \in Queries, fault \in PersistFaults}
      \cup {[op |-> "chat_route", doc_ids |-> {1}, user |-> "u1", prompt |-> <<>>,
              env |-> Env(fault, ZeroSims)] : fault \in PersistFaults}

NextPersist ==
    \/ \E req \in PersistRequests : Arrive(req)
    \/ Serve
    \/ Deliver

SpecPersist == InitPersist /\ [][NextPersist]_vars

-----------------------------------------------------------------------------
(* Owners: two users ask for their own and each other's documents, which    *)
(* get their indexes on the way, and delete their own                       *)

OwnerStore ==
    << Row(1, "handbook.pdf", "pdf", "u1", FALSE,
           PdfFile("Minimum Standards", "CHAPTER 1", "GENERAL",
                   LargeBody(<<"B", "A", "A">>, 4000))),
       Row(2, "memo.pdf", "pdf", "u1", FALSE,
           PdfFile("Memo", "CHAPTER 2", "STAFFING", LargeBody(<<"S", "A", "S">>, 4000))),
       Row(4, "other.pdf", "pdf", "u2", FALSE,
           PdfFile("Other", "CHAPTER 9", "PRIVATE", LargeBody(<<"S", "S", "B">>, 4000))) >>

InitOwner == InitProcess /\ database = OwnerStore

OwnerRequests ==
    {[op |-> "get_llm_response", doc_ids |-> ids, user |-> u, prompt |-> Q2,
      env |-> Env("none", ZeroSims)] :
        ids \in (SUBSET {1, 2, 4}) \ {{}}, u \in Users \cup {None}}

\* delete_document, api/routes/documents.py:243-311: the user's own document
\* loses its file and is marked as deleted; its index file stays
DeleteDocument ==
    /\ pc = "idle"
    /\ \E i \in 1..Len(database), current_user \in Users :
          /\ database[i].uploaded_by = current_user
          /\ ~database[i].is_deleted
          /\ database' = [database EXCEPT ![i].is_deleted = TRUE,
                                          ![i].file = BadFile("missing", "")]
    /\ UNCHANGED <<USE_EMBEDDINGS, embedding_model, index_files, embedding_files,
                   embedding_failed, pc, request, last>>

NextOwner ==
    \/ \E req \in OwnerRequests : Arrive(req)
    \/ Serve
    \/ Deliver
    \/ DeleteDocument

SpecOwner == InitOwner /\ [][NextOwner]_vars

-----------------------------------------------------------------------------
(* Properties.  They are stated on the state a served request leaves:      *)
(* request is the request, last what get_document_context gathered and     *)
(* returned and what the entry point handed on.                            *)

Served == pc = "done"

\* the record of document id in the table
RowOf(id) == CHOOSE row \in Range(database) : row.id = id

\* the segments of b occur in a, next to each other and in order
Contains(a, b) ==
    \E k \in 0..(Len(a) - Len(b)) : SubSeq(a, k + 1, k + Len(b)) = b

\* the entries of the request served that were ranked against a query
Ranked == {c \in Range(last.contexts) : c.rank.path # "none"}

\* chunk 0 of the chunk sequence the entry was ranked over
FirstChunkOf(c) ==
    IF c.rank.path = "relevant"
    THEN Strip(Buffers(RowOf(c.id).file.content, 10000)[1])
    ELSE index_files[c.id].data.chunks[1].content

\* C1: first-chunk inclusion.  Whenever a document is ranked against a query,
\* by get_document_from_index or by get_relevant_chunks, the chunk at position
\* 0 is among the selected sections and its text is in the content returned
\* for the document, whether or not it ranks in the top max_chunks.
C1_FirstChunkIncluded ==
    Served =>
      \A c \in Ranked :
         /\ FirstChunkOf(c) # <<>>
         /\ FirstChunkOf(c) \in Range(c.rank.top_chunks)
         /\ \E i \in 1..Len(c.content) :
               c.content[i].kind = "content" /\ c.content[i].body = FirstChunkOf(c)

\* the index path selected chunk 0 although max_chunks others score higher
C1_Witness ==
    /\ Served
    /\ \E c \in Ranked :
          /\ c.rank.path \in {"keyword", "hybrid"}
          /\ Len(c.rank.scored_chunks) > max_chunks
          /\ FirstChunkOf(c) \notin Range(Contents(Take(c.rank.scored_chunks, max_chunks)))
          /\ c.rank.top_chunks[1] = FirstChunkOf(c)

\* the budget of an entry point; the two that state none get the larger one
BudgetOf(op) ==
    IF op = "chat_route" THEN route_max_context_length ELSE llm_max_context_length

\* C2: budget respected.  On every path that hands the context to a language
\* model the string handed on is at most the budget plus the truncation
\* notice long.
C2_BudgetRespected ==
    Served => SegLen(last.handed) <= BudgetOf(last.op) + Len(TruncationNotice)

\* get_chat_response or enhance_system_message hands on more than any budget
C2_OverBudget ==
    /\ Served
    /\ last.op \in {"get_chat_response", "enhance_system_message"}
    /\ SegLen(last.handed) > llm_max_context_length + Len(TruncationNotice)

\* what is left of the context in the string handed on
KeptPart(handed) ==
    LET NotNotice(seg) == seg.kind # "truncation" IN SelectSeq(handed, NotNotice)

HasNotice(handed) == \E i \in 1..Len(handed) : handed[i].kind = "truncation"

\* C3: a cut never falls inside a marker, and the truncation notice is
\* appended if and only if something was cut off.
C3_CutOutsideMarkers ==
    Served =>
      /\ \A i \in 1..Len(last.handed) :
            ~last.handed[i].whole => last.handed[i].kind # "marker"
      /\ HasNotice(last.handed) <=> SegLen(KeptPart(last.handed)) < SegLen(last.text)

\* the slice ends inside a section marker
C3_MarkerCut ==
    /\ Served
    /\ HasNotice(last.handed)
    /\ \E i \in 1..Len(last.handed) :
          /\ ~last.handed[i].whole
          /\ last.handed[i].kind = "marker"
          /\ last.handed[i].n < Len(last.handed[i].s)

\* the document fails: file missing, invalid header, exception, unsupported
Fails(row) == row.file.kind # "pdf"

\* the bracketed placeholder of a failing document
PlaceholderOf(row) ==
    CASE row.file.kind = "missing" -> NotFoundText(row)
      [] row.file.kind \in {"error", "raises"} -> ExtractErrorText(row, row.file.error)
      [] OTHER -> UnsupportedText(row)

\* C4: partial-failure isolation.  The call returns a string; every found
\* document has its entry, in order; a failing one is represented by its
\* bracketed placeholder, a succeeding one by its content, which is what the
\* document alone determines; and the string returned holds each of them.
C4_PartialFailureIsolation ==
    Served =>
      /\ last.text # <<>>
      /\ (last.documents # <<>> =>
            /\ Len(last.contexts) = Len(last.documents)
            /\ \A i \in 1..Len(last.documents) :
                  LET row == last.documents[i]
                      c == last.contexts[i]
                  IN /\ c.id = row.id
                     /\ Contains(last.text, c.content)
                     /\ IF Fails(row)
                        THEN c.content = <<Lit("placeholder", PlaceholderOf(row), row.id)>>
                        ELSE /\ c.outcome \in {"extracted", "index"}
                             /\ c.outcome = "extracted" =>
                                   c.content = ContentText(row, QueryOf(request))
                             /\ \E j \in 1..Len(c.content) :
                                   c.content[j].kind = "content" /\ c.content[j].n > 0)

\* a failing document and a succeeding one were asked for together
C4_Witness ==
    /\ Served
    /\ Len(last.documents) = 2
    /\ \E i, j \in 1..2 :
          /\ Fails(last.documents[i])
          /\ ~Fails(last.documents[j])
          /\ last.contexts[i].outcome = "not_found"
          /\ Contains(last.text, last.contexts[j].content)
          /\ last.contexts[j].length > 0

\* C5: every requested id is represented in the string returned when other
\* requested documents are returned.
C5_EveryIdRepresented ==
    (Served /\ last.documents # <<>>) =>
       \A id \in request.doc_ids :
          \E i \in 1..Len(last.text) : last.text[i].doc = id

\* a requested id leaves no trace next to a document that is returned
C5_SilentlyAbsent ==
    /\ Served
    /\ last.documents # <<>>
    /\ \E id \in request.doc_ids : \A i \in 1..Len(last.text) : last.text[i].doc # id

\* the semantic path cannot complete for the request served
SemanticUnavailable(c) ==
    \/ ~last.use_before
    \/ ~embedding_files[c.id].exists
    \/ request.env.np_load = "raise"
    \/ request.env.encode = "raise"
    \/ request.env.similarity = "raise"
    \/ (request.env.model_load = "raise" /\ last.model_before = None)

\* what the keyword-only ranking selects from the index of the entry
KeywordSelection(c) ==
    Contents(Take(KeywordPath(index_files[c.id].data, QueryOf(request)), max_chunks))

\* C6: graceful degradation.  When the flag is down, or the document has no
\* embedding file, or a step of the semantic path raises, the query on the
\* index still returns a result and the sections it selects are those of the
\* keyword-only ranking (with chunk 0 put first when it is not among them).
C6_GracefulDegradation ==
    Served =>
      \A c \in Range(last.contexts) :
         (c.outcome = "index" /\ SemanticUnavailable(c)) =>
            /\ c.rank.path = "keyword"
            /\ c.rank.scored_chunks = KeywordPath(index_files[c.id].data, QueryOf(request))
            /\ \/ c.rank.top_chunks = KeywordSelection(c)
               \/ /\ FirstChunkOf(c) \notin Range(KeywordSelection(c))
                  /\ c.rank.top_chunks =
                        <<FirstChunkOf(c)>> \o SubSeq(KeywordSelection(c), 1, max_chunks - 1)
            /\ c.content = FormatSections(c.rank.top_chunks, c.id)

\* vectors on disk, flag up, and the similarity computation raised
C6_Witness ==
    /\ Served
    /\ \E c \in Range(last.contexts) :
          /\ c.outcome = "index"
          /\ last.use_before
          /\ embedding_files[c.id].exists
          /\ request.env.similarity = "raise"
          /\ c.rank.path = "keyword"
          /\ Len(c.rank.top_chunks) = max_chunks

\* C7: circuit breaker.  Once an embedding computation has raised, the flag
\* is down, and no later request attempts an embedding computation.
C7_CircuitBreaker ==
    /\ embedding_failed => ~USE_EMBEDDINGS
    /\ (Served /\ last.failed_before) => ~last.attempted

\* model.encode raised in an earlier request and this one computes again
C7_AttemptAfterFailure ==
    /\ Served
    /\ last.failed_before
    /\ last.attempted
    /\ USE_EMBEDDINGS

\* C8: no rollback.  No step sets USE_EMBEDDINGS back to true.
C8_NoRollback == [][~USE_EMBEDDINGS => ~USE_EMBEDDINGS']_vars

\* the flag went down on a failed model load and a later request, for which
\* the model would load, was served with the flag still down
C8_Witness ==
    /\ Served
    /\ embedding_failed
    /\ ~last.use_before
    /\ ~USE_EMBEDDINGS
    /\ request.env.model_load = "ok"
    /\ \E c \in Range(last.contexts) : c.outcome \in {"index", "extracted"}

\* the keyword score of the chunk at position pos of the index of the entry
OwnKeywordScore(c, pos) ==
    score_chunks_by_keywords(index_files[c.id].data.chunks, QueryOf(request))[pos]

\* C9: hybrid fusion.  On the hybrid path every chunk's score is 0.7 times
\* its own similarity plus 0.3 times its own keyword score over 10 (here in
\* thousandths: 7 * hundredths + 30 * score), and the list is in descending
\* order of it.
C9_HybridFusion ==
    Served =>
      \A c \in Range(last.contexts) :
         c.rank.path = "hybrid" =>
            LET sc == c.rank.scored_chunks
            IN /\ \A i \in 1..Len(sc) :
                     sc[i].score = 7 * c.rank.similarities[sc[i].pos]
                                     + 30 * OwnKeywordScore(c, sc[i].pos)
               /\ \A i, j \in 1..Len(sc) : i < j => sc[i].score >= sc[j].score

\* a chunk carries the keyword score of another position
C9_ForeignKeywordScore ==
    /\ Served
    /\ \E c \in Range(last.contexts) :
          /\ c.rank.path = "hybrid"
          /\ \E i \in 1..Len(c.rank.scored_chunks) :
                LET e == c.rank.scored_chunks[i]
                IN e.score # 7 * c.rank.similarities[e.pos] + 30 * OwnKeywordScore(c, e.pos)

\* C10: ranking order and tie-break.  On every path the scored list is in
\* descending order of score, and chunks of equal score are in the order of
\* their positions.
C10_StableDescending ==
    Served =>
      \A c \in Ranked :
         LET sc == c.rank.scored_chunks
         IN \A i, j \in 1..Len(sc) :
               i < j => \/ sc[i].score > sc[j].score
                        \/ sc[i].score = sc[j].score /\ sc[i].pos < sc[j].pos

\* two chunks of equal hybrid score, the later position first
C10_TieOutOfOrder ==
    /\ Served
    /\ \E c \in Ranked :
          /\ c.rank.path = "hybrid"
          /\ \E i, j \in 1..Len(c.rank.scored_chunks) :
                /\ i < j
                /\ c.rank.scored_chunks[i].score = c.rank.scored_chunks[j].score
                /\ c.rank.scored_chunks[i].pos > c.rank.scored_chunks[j].pos

\* The list entries behind the selected sections of an entry ranked against
\* a query, each with the position and the score of its chunk: chunk 0 ahead
\* of the max_chunks - 1 best of the scored list when it is not among the
\* max_chunks best, the max_chunks best otherwise (lines 292-297, 759-764).
SelectedEntries(c) ==
    LET sc == c.rank.scored_chunks
    IN IF FirstChunkOf(c) \notin Range(Contents(Take(sc, max_chunks)))
       THEN <<CHOOSE e \in Range(sc) : e.pos = 1>> \o Take(sc, max_chunks - 1)
       ELSE Take(sc, max_chunks)

\* chunk 0 was put in without ranking among the max_chunks best
FirstChunkForced(c) ==
    FirstChunkOf(c) \notin Range(Contents(Take(c.rank.scored_chunks, max_chunks)))

\* C11: selection bound.  The sections selected for a ranked document are at
\* most max_chunks, they are the texts of list entries of pairwise different
\* chunk positions, and when chunk 0 is forced in the others are the
\* max_chunks - 1 best of the scored list.
C11_SelectionBound ==
    Served =>
      \A c \in Ranked :
         LET sel == SelectedEntries(c)
         IN /\ Len(c.rank.top_chunks) <= max_chunks
            /\ c.rank.top_chunks = Contents(sel)
            /\ \A i, j \in 1..Len(sel) : i # j => sel[i].pos # sel[j].pos
            /\ FirstChunkForced(c) =>
                 /\ sel[1].pos = 1
                 /\ SubSeq(c.rank.top_chunks, 2, Len(c.rank.top_chunks))
                      = Contents(Take(c.rank.scored_chunks, max_chunks - 1))

\* get_relevant_chunks forced chunk 0 into a full selection
C11_Witness ==
    /\ Served
    /\ \E c \in Ranked :
          /\ c.rank.path = "relevant"
          /\ FirstChunkForced(c)
          /\ Len(c.rank.scored_chunks) > max_chunks
          /\ Len(c.rank.top_chunks) = max_chunks

\* C12: section order.  The selected sections are in descending order of
\* the scores of their chunks, also when chunk 0 was forced in.
C12_SectionsDescending ==
    Served =>
      \A c \in Ranked :
         LET sel == SelectedEntries(c)
         IN \A i, j \in 1..Len(sel) : (i < j) => (sel[i].score >= sel[j].score)

\* chunk 0, forced in, is section 1 and scores less than section 2
C12_ForcedFirstOutOfOrder ==
    /\ Served
    /\ \E c \in Ranked :
          /\ FirstChunkForced(c)
          /\ c.rank.top_chunks[1] = FirstChunkOf(c)
          /\ SelectedEntries(c)[1].score < SelectedEntries(c)[2].score

\* the text create_document_index was given for the stored file of the
\* indexing runs
IndexedBody == extract_text_from_pdf(database[1].file).content

\* a read of the index without a query has returned the document
WholeRead ==
    /\ pc = "done"
    /\ last.op = "get_document_from_index"
    /\ last.result.found

\* C13: chunker round trip.  For a body without empty paragraphs, the
\* content a read without a query returns (the chunks of the index joined
\* by blank lines) has the paragraph sequence of the body: nothing lost,
\* duplicated, split or reordered.
C13_RoundTrip ==
    WholeRead =>
      ((\A i \in 1..Len(IndexedBody) : ~EmptyPara(IndexedBody[i]))
          => last.result.content = IndexedBody)

\* a body of three paragraphs read back from two chunks, one of them of two
\* paragraphs
C13_Witness ==
    /\ WholeRead
    /\ Len(IndexedBody) = 3
    /\ \A i \in 1..Len(IndexedBody) : ~EmptyPara(IndexedBody[i])
    /\ Len(index_files[1].data.chunks) = 2
    /\ \E i \in 1..2 : Len(index_files[1].data.chunks[i].content) = 2

\* get_relevant_chunks has cut the text of the stored file
ChunksCut == pc = "done" /\ last.op = "get_relevant_chunks"

\* contents of at least two paragraphs are at most size characters long
SizeBound(contents, size) ==
    \A i \in 1..Len(contents) :
       Len(contents[i]) >= 2 => TextLen(contents[i]) <= size

\* the last content is what is left of a buffer that ran to the end of the
\* body
LastBufferEmitted(contents, body) ==
    body # <<>> =>
      /\ contents # <<>>
      /\ \E k \in 1..Len(body) :
            contents[Len(contents)] = Strip(SubSeq(body, k, Len(body)))

\* C19: chunk size bound.  A chunk of two or more paragraphs is at most the
\* target size long, separators included (5000 in create_document_index,
\* 10000 in get_relevant_chunks); only one-paragraph chunks are longer; the
\* buffer that is running when the body ends becomes the last chunk.
C19_ChunkSizeBound ==
    /\ index_files[1].exists =>
         /\ SizeBound(Contents(index_files[1].data.chunks), index_chunk_size)
         /\ LastBufferEmitted(Contents(index_files[1].data.chunks), IndexedBody)
    /\ ChunksCut =>
         /\ SizeBound(last.chunks, 10000)
         /\ LastBufferEmitted(last.chunks, last.text)

\* an index with a two-paragraph chunk of exactly the target size and a
\* one-paragraph chunk above it
C19_Witness ==
    /\ index_files[1].exists
    /\ \E i, j \in 1..Len(index_files[1].data.chunks) :
          LET ci == index_files[1].data.chunks[i].content
              cj == index_files[1].data.chunks[j].content
          IN /\ Len(ci) = 2 /\ TextLen(ci) = index_chunk_size
             /\ Len(cj) = 1 /\ TextLen(cj) > index_chunk_size

\* three paragraphs of one length p with p <= size < 2p
ThreeEqualParagraphs(body, size) ==
    /\ Len(body) = 3
    /\ \A i \in 1..3 : ParaLen(body[i]) = ParaLen(body[1])
    /\ ParaLen(body[1]) <= size
    /\ size < 2 * ParaLen(body[1])

\* C20 as the code has it: a body of three equal paragraphs of length p
\* with p <= target size < 2p is cut into three chunks, one paragraph each,
\* by create_document_index (5000) and by get_relevant_chunks (10000).
C20_ThreeChunks ==
    /\ (index_files[1].exists /\ ThreeEqualParagraphs(IndexedBody, index_chunk_size)) =>
         Contents(index_files[1].data.chunks)
           = <<<<IndexedBody[1]>>, <<IndexedBody[2]>>, <<IndexedBody[3]>>>>
    /\ (ChunksCut /\ ThreeEqualParagraphs(last.text, 10000)) =>
         last.chunks = <<<<last.text[1]>>, <<last.text[2]>>, <<last.text[3]>>>>

\* the index of three paragraphs of 4000 characters
C20_Witness ==
    /\ index_files[1].exists
    /\ ThreeEqualParagraphs(IndexedBody, index_chunk_size)
    /\ ParaLen(IndexedBody[1]) = 4000
    /\ Len(index_files[1].data.chunks) = 3

\* C20 as the claim has it: two chunks, the first paragraph and then the
\* second and third together.
C20_TwoChunks ==
    /\ (index_files[1].exists /\ ThreeEqualParagraphs(IndexedBody, index_chunk_size)) =>
         Contents(index_files[1].data.chunks)
           = <<<<IndexedBody[1]>>, <<IndexedBody[2], IndexedBody[3]>>>>
    /\ (ChunksCut /\ ThreeEqualParagraphs(last.text, 10000)) =>
         last.chunks = <<<<last.text[1]>>, <<last.text[2], last.text[3]>>>>

\* the indexer has run over the stored files
IndexerRan == pc = "done" /\ last.op = "index_existing_documents"

\* PyPDF2 finds no text in the file
NoPrimaryText(f) == f.kind = "pdf" /\ PrimaryResult(f).total_chars = 0

\* C18: empty-document handling.  When PyPDF2 yields no body character,
\* extract_text_from_pdf calls the alternative extraction once, and when
\* that yields no text or raises, the result is an error, not a result
\* with empty content.
C18_EmptyDocumentIsError ==
    IndexerRan =>
      \A i \in 1..Len(last.extracted) :
         LET f == RowOf(last.extracted[i].id).file
             r == last.extracted[i].data
         IN NoPrimaryText(f) =>
              /\ r.alt_calls = 1
              /\ (f.alt.outcome = "raises" \/ TextLen(f.alt.text) = 0) => r.is_error

\* no text from either parser, and the result is not an error
C18_EmptySuccess ==
    /\ IndexerRan
    /\ \E i \in 1..Len(last.extracted) :
          /\ NoPrimaryText(RowOf(last.extracted[i].id).file)
          /\ ~last.extracted[i].data.is_error
          /\ TextLen(last.extracted[i].data.content) = 0

\* score_chunks_by_keywords has scored the two chunks of the request
Scored == pc = "done" /\ last.op = "score_chunks_by_keywords"

\* a term of the query of more than two characters occurs in the text
HasTerm(content, query) ==
    \E w \in TermWords(query), j \in 1..Len(content) : ParaCount(Lower(w), content[j]) > 0

\* C14: keyword monotonicity.  A chunk with one more occurrence of a query
\* term (of more than two characters) scores at least what the chunk scores
\* without it; a chunk without any occurrence of such a term scores 0 and a
\* chunk with one scores more than 0.
C14_KeywordMonotone ==
    Scored =>
      /\ last.scores[2] >= last.scores[1]
      /\ \A i \in 1..2 :
            HasTerm(request.chunks[i].content, request.query) <=> last.scores[i] > 0

\* the chunk with one more occurrence scores less
C14_ScoreDecreases == Scored /\ last.scores[2] < last.scores[1]

\* the documents of the request served that had an index when it arrived
IndexedBefore == {c \in Range(last.contexts) : last.index_before[c.id].exists}

\* C15: index reuse.  Once a document has an index, every later
\* get_document_context call that covers it takes its entry from the index
\* (no extraction, no chunking) and leaves the index file as it was.
C15_IndexReuse ==
    Served =>
      \A c \in IndexedBefore :
         /\ c.outcome = "index"
         /\ index_files[c.id] = last.index_before[c.id]

\* a document with an index whose file was extracted again
C15_ExtractedAgain ==
    /\ Served
    /\ \E c \in IndexedBefore : c.outcome = "extracted"

\* both requests have built the index and returned
BothBuilt == \A b \in Builders : pc[b] = "done" /\ last[b].built

\* C16: concurrent first build.  When two requests have both built the
\* index of one document at the same time, the index file loads and holds
\* the chunk sequence of a single build, and the embedding file, when there
\* is one, holds one vector per chunk in chunk order.
C16_ConcurrentBuild ==
    BothBuilt =>
      /\ Loadable(index_files[1].data)
      /\ index_files[1].data.head.data.chunks = IndexChunks(database[1].file.content)
      /\ embedding_files[1].exists =>
           embedding_files[1].data = Contents(IndexChunks(database[1].file.content))

\* both builds are done and the index file does not load
C16_TornIndex == BothBuilt /\ ~Loadable(index_files[1].data)

\* C17: atomic index write.  Whoever looks at the index file while it is
\* being built, get_document_from_index or the existence check of
\* get_document_context, finds no file or a complete one.
C17_AtomicWrite ==
    \A p \in Builders \cup {Reader} : last[p].observed \in {"nothing", "none", "complete"}

\* the reader found a file that is there and does not load
C17_PartialSeen ==
    /\ pc[Reader] = "done"
    /\ last[Reader].observed \in {"empty", "partial"}

\* the entries of the request served that were ranked by the hybrid path
HybridRanked == {c \in Ranked : c.rank.path = "hybrid"}

\* the entry of the ranked list for chunk i carries the similarity of vector i
\* (with some keyword score added, lines 258-259)
SimilarityOfOwnVector(c, i) ==
    LET chunks == index_files[c.id].data.chunks
        vectors == embedding_files[c.id].data
        keyword_scores == score_chunks_by_keywords(chunks, QueryOf(request))
    IN \E e \in Range(c.rank.scored_chunks) :
          /\ e.pos = i
          /\ e.content = chunks[i].content
          /\ \E k \in 1..Len(keyword_scores) :
                e.score = 7 * request.env.sims[FirstIndex(vectors, i)] + 30 * keyword_scores[k]

\* C21: embeddings parallel to chunks.  Whenever an index file and an
\* embedding file both exist for a document id, the embedding array has one
\* vector per chunk of the index and vector i was computed from the content of
\* chunk i; the ranking pairs similarity i with chunk i only.
C21_EmbeddingsParallel ==
    /\ \A d \in DocIds :
          index_files[d].exists /\ embedding_files[d].exists
            => embedding_files[d].data = Contents(index_files[d].data.chunks)
    /\ Served =>
         \A c \in HybridRanked :
            /\ Len(c.rank.similarities) = Len(index_files[c.id].data.chunks)
            /\ Len(c.rank.scored_chunks) = Len(index_files[c.id].data.chunks)
            /\ \A i \in 1..Len(index_files[c.id].data.chunks) : SimilarityOfOwnVector(c, i)

\* a hybrid ranking over chunks of different texts in which one chunk after
\* the first is similar to the query and the first is not
C21_Witness ==
    /\ Served
    /\ \E c \in HybridRanked :
          /\ embedding_files[c.id].exists
          /\ Len(embedding_files[c.id].data) = NumParas
          /\ c.rank.similarities[1] = 0
          /\ \E i \in 2..NumParas :
                /\ c.rank.similarities[i] > 0
                /\ embedding_files[c.id].data[i] # embedding_files[c.id].data[1]

\* the chunk records of the index files
PersistedChunks ==
    UNION {Range(index_files[d].data.chunks) : d \in {e \in DocIds : index_files[e].exists}}

\* C22: chunk record consistency.  For every chunk create_document_index
\* persisted, the stored hash is the hash of the stored content and the stored
\* length is the number of characters of the stored content.
C22_ChunkRecordConsistent ==
    \A chunk \in PersistedChunks :
       /\ chunk.hash = Md5(chunk.content, 0)
       /\ chunk.length = TextLen(chunk.content)

\* a persisted chunk whose hash was taken of the content followed by the two
\* newline characters of the buffer and whose length counts them
C22_HashOfBuffer ==
    \E chunk \in PersistedChunks :
       /\ chunk.hash = Md5(chunk.content, 2)
       /\ chunk.hash # Md5(chunk.content, 0)
       /\ chunk.length = TextLen(chunk.content) + 2

\* C23: index creation threshold.  An index is persisted for a document only
\* when its extracted body is longer than 10,000 characters; neither
\* get_document_context nor index_existing_documents persists an index for a
\* shorter body.
C23_IndexThreshold ==
    \A d \in DocIds : index_files[d].exists => index_files[d].data.total_length > 10000

\* index_existing_documents has persisted an index for a body of at most
\* 10,000 characters
C23_SmallBodyIndexed ==
    /\ IndexerRan
    /\ index_files[1].exists
    /\ index_files[1].data.total_length = TextLen(IndexedBody)
    /\ TextLen(IndexedBody) > 1000
    /\ TextLen(IndexedBody) <= 10000

LinesRead == pc = "done" /\ last.op = "extract_text_from_pdf"

\* how often line occurs in the list
CountOf(line, list) == Cardinality({i \in 1..Len(list) : list[i] = line})

\* the condition under which a line may count as heading-like
HeadingLike(line) ==
    \/ line.n > 0 /\ LineLen(line) < 100 /\ IsUpper(line)
    \/ MatchesKeyword(line)
    \/ MatchesNumbered(line)
    \/ MatchesRoman(line)

\* C24: heading classification.  A line is put in chapters or headings only
\* if its trimmed text is non-empty, shorter than 100 characters and fully
\* upper-case, or matches ^(Chapter|Section|Part)\s+\d+, or starts with a
\* numbered or roman-numeral marker; no line of 100 or more characters is put
\* in chapters or headings; every non-empty line goes to exactly one of
\* chapters, headings and body.
C24_HeadingClassification ==
    LinesRead =>
      /\ \A line \in Range(last.chapters) \cup Range(last.headings) :
            HeadingLike(line) /\ LineLen(line) < 100
      /\ \A raw \in Range(database[1].file.lines) :
            StripLine(raw).n > 0 =>
               CountOf(StripLine(raw), last.chapters) + CountOf(StripLine(raw), last.headings)
                 + CountOf(StripLine(raw), last.page_content)
                 = CountOf(StripLine(raw),
                           [i \in 1..Len(database[1].file.lines) |->
                               StripLine(database[1].file.lines[i])])

\* a line of 100 characters that starts with "Chapter 7" is among the chapters
C24_LongChapterLine ==
    /\ LinesRead
    /\ \E line \in Range(last.chapters) :
          LineLen(line) >= 100 /\ MatchesKeyword(line) /\ ~IsUpper(line)

\* the query terms of more than two characters, each once
DistinctTerms(query) ==
    {Lower(query[t]) : t \in {u \in 1..Len(query) : Len(Lower(query[u])) > 2}}

\* 2 x the number of distinct terms in the paragraph when there are two or more
DistinctBonus(para, query) ==
    LET present == {term \in DistinctTerms(query) : ParaCount(term, para) > 0}
    IN IF Cardinality(present) >= 2 THEN 2 * Cardinality(present) ELSE 0

\* C25: co-occurrence bonus.  For each paragraph of a chunk the bonus is 2 x
\* the number of distinct query tokens (longer than 2) that occur in the
\* paragraph, given only when at least 2 distinct tokens occur there; so
\* repeating a token in the query changes no chunk's bonus.
C25_CoOccurrenceBonus ==
    Scored =>
      \A i \in 1..Len(request.chunks) :
         last.bonuses[i] =
            SumSeq([j \in 1..Len(request.chunks[i].content) |->
                      DistinctBonus(request.chunks[i].content[j], request.query)])

\* a chunk in which one token of a query that repeats it occurs, and no
\* other, has a bonus
C25_RepeatedTokenCounted ==
    /\ Scored
    /\ Cardinality(DistinctTerms(request.query)) = 1
    /\ \E i \in 1..Len(request.chunks) : last.bonuses[i] >= 4

\* query.lower().split() without the tokens of at most two characters
DiscardShort(query) ==
    LET Long(w) == Len(Lower(w)) > 2
    IN SelectSeq(query, Long)

\* C26: short tokens are discarded before scoring.  Putting tokens of at most
\* two characters into the query or taking them out leaves every chunk's
\* keyword score as it is, the +5 adjacency bonus included, which is given for
\* each pair of tokens that are next to each other once the short tokens are
\* discarded.
C26_ShortTokensDiscarded ==
    Scored =>
      \A i \in 1..Len(request.chunks) :
         last.scores[i] = KeywordScore(request.chunks[i].content, DiscardShort(request.query))

\* a chunk that holds two tokens next to each other scores 5 less when the
\* query has a short token between the two
C26_AdjacencyLost ==
    /\ Scored
    /\ DiscardShort(request.query) # request.query
    /\ \E i \in 1..Len(request.chunks) :
          last.scores[i] + 5
            = KeywordScore(request.chunks[i].content, DiscardShort(request.query))

\* the write of the index file or of the embedding file raises in the request
PersistenceFault ==
    request.env.index_write # "ok" \/ request.env.embedding_write # "ok"

\* the entries of documents for which the request served called
\* create_document_index: text was extracted, it is long, and there was no
\* index file before
BuildCalled ==
    {c \in Range(last.contexts) :
        /\ RowOf(c.id).file.kind = "pdf"
        /\ TextLen(RowOf(c.id).file.content) > 10000
        /\ ~last.index_before[c.id].exists}

\* the entry built from the text extracted in memory
InMemoryContext(row, query) ==
    ExtractedContext([contexts |-> <<>>], row, ContentText(row, query),
                     ContentRank(row, query)).contexts[1]

\* C27: index persistence failure is contained.  When the write of the index
\* file or of the embedding file fails inside create_document_index, no
\* exception reaches the caller, and the context the request in flight
\* returns for the document is the one built from the text extracted in
\* memory.
C27_PersistenceFailureContained ==
    (Served /\ PersistenceFault) =>
       /\ ~last.escaped
       /\ \A c \in BuildCalled : c = InMemoryContext(RowOf(c.id), QueryOf(request))
       /\ last.text = FormatContext(last.contexts)

\* a request whose index write raised half-way: the file left behind cannot
\* be loaded and the document's entry is the extracted one
C27_Witness ==
    /\ Served
    /\ request.env.index_write = "dump_raises"
    /\ \E c \in BuildCalled :
          /\ IsPartial(index_files[c.id])
          /\ ~embedding_files[c.id].exists
          /\ c.outcome = "extracted"

\* C28: embeddings are written only at index-build time.  The embedding file
\* of a document is created only inside create_document_index, which runs
\* only while there is no index file; so once an index file exists without an
\* embedding file, no later operation creates embeddings for the document and
\* every later query on it is ranked by keywords only.
C28_EmbeddingsOnlyAtBuild ==
    [][\A d \in DocIds :
          /\ embedding_files'[d] # embedding_files[d] => ~index_files[d].exists
          /\ (index_files[d].exists /\ ~embedding_files[d].exists) =>
                /\ ~embedding_files'[d].exists
                /\ pc' = "done" =>
                     /\ ~last'.attempted
                     /\ \A c \in Range(last'.contexts) :
                           c.id = d => c.rank.path \in {"none", "keyword", "relevant"}
      ]_vars

\* the embedding computation failed when the index was built; a later query,
\* with the embedding capability still on, is served from the index by
\* keywords
C28_Witness ==
    /\ Served
    /\ last.index_before[1].exists
    /\ ~IsPartial(index_files[1])
    /\ ~embedding_files[1].exists
    /\ last.use_before
    /\ USE_EMBEDDINGS
    /\ \E c \in Range(last.contexts) : c.id = 1 /\ c.rank.path = "keyword"

\* the entries of the request served that came from the persisted index,
\* ranked by keywords
KeywordServed ==
    {c \in Range(last.contexts) : c.outcome = "index" /\ c.rank.path = "keyword"}

\* C29: building the index does not change what the caller receives.  For a
\* document and a query, with embeddings unavailable, the content returned on
\* the request that builds the index (the one made of the extracted text)
\* equals the content returned on later requests served from the index.
C29_IndexTransparent ==
    Served =>
      \A c \in KeywordServed : c.content = ContentText(RowOf(c.id), QueryOf(request))

\* a body of 10,001 to 50,000 characters: the request that built the index
\* returned the whole body, the later one returns sections of it
C29_FilteredAfterBuild ==
    /\ Served
    /\ ~last.use_before
    /\ \E c \in KeywordServed :
          /\ TextLen(RowOf(c.id).file.content) <= 50000
          /\ ContentText(RowOf(c.id), QueryOf(request))
               = <<Body("content", RowOf(c.id).file.content, c.id)>>
          /\ c.content = FormatSections(c.rank.top_chunks, c.id)
          /\ c.content # ContentText(RowOf(c.id), QueryOf(request))

\* the record is one the user may read: not deleted and uploaded by the user
OwnDocument(row, current_user_id) ==
    ~row.is_deleted /\ row.uploaded_by = current_user_id

====
